---- MODULE Spec2Model ----
(***************************************************************************)
(* The sandboxed image reader of aidd/tools/image_tools.py:                *)
(* handle_read_image_file resolves a caller path against                   *)
(* state.allowed_directory, guards existence / regular-file-ness / size,   *)
(* opens the image with PIL, rescales its width into                       *)
(* [MIN_WIDTH, MAX_WIDTH], re-encodes it and returns a base64 data URI.    *)
(*                                                                         *)
(* Python strings that the code inspects character by character (paths,    *)
(* the base64 payload) are sequences of one-character strings; strings     *)
(* that are only compared or concatenated (format names, messages, the     *)
(* result text) are TLA+ strings.                                          *)
(***************************************************************************)
EXTENDS Integers, Sequences, FiniteSets, TLC

----------------------------------------------------------------------------
(* Program constants, image_tools.py lines 11-15.                          *)

MAX_FILE_SIZE == 100 * 1024 * 1024

MIN_WIDTH == 20

MAX_WIDTH == 800

----------------------------------------------------------------------------
(* Bounds of the model.                                                    *)

\* Longest caller path, in characters.
MaxPathLen == 5

\* A caller-supplied max_size; file sizes are taken around it and around
\* MAX_FILE_SIZE.
SmallCeiling == 10

\* Symbolic links followed in one path resolution before the kernel gives
\* up with ELOOP.
MaxSymlinkHops == 2

\* For the image sizes of SpecImages: how far around MIN_WIDTH and MAX_WIDTH
\* the widths go, and the largest of the small heights.
WidthMargin == 3

MaxHeight == 8

\* The characters of caller paths.
Chars == {"/", ".", "d"}

\* Python's None.
None == <<"None">>

\* All strings of at most n characters.
Strings(n) == UNION {[1..k -> Chars] : k \in 0..n}

----------------------------------------------------------------------------
(* posixpath, as called from lines 50-56.                                  *)

\* str.startswith
startswith(s, prefix) ==
    /\ Len(prefix) <= Len(s)
    /\ SubSeq(s, 1, Len(prefix)) = prefix

\* os.path.isabs
isabs(s) == startswith(s, <<"/">>)

\* os.path.join(a, b)
join(a, b) ==
    IF isabs(b) THEN b
    ELSE IF a = <<>> \/ a[Len(a)] = "/" THEN a \o b
    ELSE a \o <<"/">> \o b

\* str.split("/"): cur is the component being read.
RECURSIVE split(_, _)
split(s, cur) ==
    IF s = <<>> THEN <<cur>>
    ELSE IF Head(s) = "/" THEN <<cur>> \o split(Tail(s), <<>>)
    ELSE split(Tail(s), Append(cur, Head(s)))

\* "/".join(comps)
RECURSIVE joinsep(_)
joinsep(comps) ==
    IF comps = <<>> THEN <<>>
    ELSE IF Len(comps) = 1 THEN comps[1]
    ELSE comps[1] \o <<"/">> \o joinsep(Tail(comps))

\* The loop of posixpath.normpath over the components: "" and "." are
\* dropped, ".." pops a component, and is kept only in a relative path that
\* has nothing left to pop.
RECURSIVE collapse(_, _, _)
collapse(comps, new_comps, initial_slashes) ==
    IF comps = <<>> THEN new_comps
    ELSE LET comp == Head(comps)
             n    == Len(new_comps)
         IN  IF comp = <<>> \/ comp = <<".">>
               THEN collapse(Tail(comps), new_comps, initial_slashes)
             ELSE IF \/ comp # <<".", ".">>
                     \/ (initial_slashes = 0 /\ n = 0)
                     \/ (n > 0 /\ new_comps[n] = <<".", ".">>)
               THEN collapse(Tail(comps), Append(new_comps, comp), initial_slashes)
             ELSE IF n > 0
               THEN collapse(Tail(comps), SubSeq(new_comps, 1, n - 1), initial_slashes)
             ELSE collapse(Tail(comps), new_comps, initial_slashes)

\* posixpath.normpath: exactly two leading slashes are kept, three or more
\* become one.
normpath(path) ==
    IF path = <<>> THEN <<".">>
    ELSE LET initial_slashes ==
                 IF ~isabs(path) THEN 0
                 ELSE IF startswith(path, <<"/", "/">>)
                         /\ ~startswith(path, <<"/", "/", "/">>) THEN 2
                 ELSE 1
             body == joinsep(collapse(split(path, <<>>), <<>>, initial_slashes))
             out  == [i \in 1..initial_slashes |-> "/"] \o body
         IN  IF out = <<>> THEN <<".">> ELSE out

\* The working directory of the process, used by abspath for a relative
\* argument only.
getcwd == <<"/">>

\* os.path.abspath
abspath(path) ==
    normpath(IF isabs(path) THEN path ELSE join(getcwd, path))

----------------------------------------------------------------------------
(* The file system the handler looks at.  A node is named by the sequence  *)
(* of its path components from "/".                                        *)

\* The entries of the tree, all regular files holding the same content:
\*   /        directory
\*   /d       directory, the allowed directory
\*   /d/d     regular file
\*   /d/dd    symbolic link to /.d, a file outside /d
\*   /d/d.    symbolic link to itself
\*   /d/.d    character device
\*   /dd      regular file, a sibling of /d whose name starts with "d"
\*   /.d      regular file outside /d
Dir == [kind |-> "dir"]

Link(target) == [kind |-> "symlink", target |-> target]

File(content) == [kind |-> "file", content |-> content]

Device == [kind |-> "device"]

Tree(content) ==
    ( <<>>                        :> Dir
   @@ << <<"d">> >>               :> Dir
   @@ << <<"d">>, <<"d">> >>      :> File(content)
   @@ << <<"d">>, <<"d", "d">> >> :> Link(<< <<".", "d">> >>)
   @@ << <<"d">>, <<"d", ".">> >> :> Link(<< <<"d">>, <<"d", ".">> >>)
   @@ << <<"d">>, <<".", "d">> >> :> Device
   @@ << <<"d", "d">> >>          :> File(content)
   @@ << <<".", "d">> >>          :> File(content) )

\* File names with the extensions of lines 77-80, in upper case too, with
\* another extension and with none.
ExtensionNames ==
    { <<"x", ".", "p", "n", "g">>,
      <<"x", ".", "j", "p", "g">>,
      <<"x", ".", "j", "p", "e", "g">>,
      <<"x", ".", "g", "i", "f">>,
      <<"x", ".", "w", "e", "b", "p">>,
      <<"x", ".", "P", "N", "G">>,
      <<"x", ".", "t", "x", "t">>,
      <<"x">> }

\* The allowed directory /d with one regular file of each of these names,
\* all holding the same content.
ExtensionTree(content) ==
    [node \in {<<>>, << <<"d">> >>} \cup {<< <<"d">>, name >> : name \in ExtensionNames}
       |-> IF Len(node) < 2 THEN Dir ELSE File(content)]

\* The components the kernel walks: empty components (repeated slashes) are
\* skipped.  full_path went through normpath, which leaves no "." and no
\* ".." in an absolute path.
components(path) == SelectSeq(split(path, <<>>), LAMBDA comp : comp # <<>>)

\* Path resolution of stat(2) and open(2): symbolic links are followed, the
\* last component included.
RECURSIVE walk(_, _, _, _)
walk(tree, cur, rest, hops) ==
    IF rest = <<>> THEN [errno |-> "OK", node |-> cur]
    ELSE LET next == Append(cur, Head(rest))
         IN  IF next \notin DOMAIN tree
               THEN [errno |-> "ENOENT", node |-> next]
             ELSE IF tree[next].kind = "symlink"
               THEN IF hops = 0
                      THEN [errno |-> "ELOOP", node |-> next]
                    ELSE walk(tree, <<>>, tree[next].target \o Tail(rest), hops - 1)
             ELSE IF Tail(rest) # <<>> /\ tree[next].kind # "dir"
               THEN [errno |-> "ENOTDIR", node |-> next]
             ELSE walk(tree, next, Tail(rest), hops)

stat(tree, path) == walk(tree, <<>>, components(path), MaxSymlinkHops)

\* A faulty existence test: the last component is not followed when it is
\* a symbolic link (lstat), so a link that leads nowhere exists.
exists_nofollow(tree, path) ==
    LET comps  == components(path)
        parent == walk(tree, <<>>, SubSeq(comps, 1, Len(comps) - 1), MaxSymlinkHops)
    IN  \/ comps = <<>>
        \/ /\ parent.errno = "OK"
           /\ Append(parent.node, comps[Len(comps)]) \in DOMAIN tree

\* os.path.exists, line 59
exists(tree, path) == stat(tree, path).errno = "OK"

\* os.path.isfile, line 61
isfile(tree, path) ==
    LET st == stat(tree, path)
    IN  st.errno = "OK" /\ tree[st.node].kind = "file"

\* os.path.getsize, line 65: st_size of what the path resolves to, 0 for a
\* device node.
getsize(tree, path) ==
    LET entry == tree[stat(tree, path).node]
    IN  IF entry.kind = "file" THEN entry.content.size ELSE 0

\* str() of the OSError of a path that does not resolve.
strerror(errno) ==
    CASE errno = "ENOENT"  -> "[Errno 2] No such file or directory"
      [] errno = "ENOTDIR" -> "[Errno 20] Not a directory"
      [] errno = "ELOOP"   -> "[Errno 40] Too many levels of symbolic links"

----------------------------------------------------------------------------
(* File contents.                                                          *)

\* The formats of the PIL plugins considered; the first four are the ones
\* the tool description names.
SupportedFormats == {"PNG", "JPEG", "GIF", "WEBP"}

PILFormats == SupportedFormats \cup {"BMP", "TIFF"}

\* img.format of an image whose plugin names no format, and of an image
\* the library made itself: Python's None.
NoFormat == "None"

\* What Image.open finds in a file; intact = FALSE when the header parses
\* and the pixel data does not.  format is the plugin's format attribute: a
\* name, the empty string, or NoFormat.
Image(format, width, height, intact) ==
    [format |-> format, width |-> width, height |-> height, intact |-> intact]

\* A file no plugin identifies: there is no image, so no size.
NotAnImage == Image("", 0, 0, FALSE)

Images ==
    { Image("PNG",  400,  100, TRUE),
      Image("JPEG", 2000, 500, TRUE),
      Image("GIF",  10,   10,  TRUE),
      Image("WEBP", 20,   7,   TRUE),
      Image("PNG",  800,  600, TRUE),
      Image("JPEG", 801,  600, TRUE),
      Image("GIF",  19,   5,   TRUE),
      Image("WEBP", 2000, 499, TRUE),
      Image("PNG",  928,  145, TRUE),
      Image("JPEG", 2000, 1,   TRUE),
      Image("PNG",  1,    1,   TRUE),
      Image("GIF",  3,    1000, TRUE),
      Image("BMP",  300,  200, TRUE),
      Image("TIFF", 1600, 1200, TRUE),
      Image("PNG",  400,  100, FALSE),
      Image("JPEG", 2000, 500, FALSE),
      NotAnImage }

\* The sizes of SpecImages: every width up to just above MIN_WIDTH, the
\* widths around MAX_WIDTH, some wide ones (842, 895 and 928 are widths
\* where the double-precision product falls below an exact quotient), with
\* small heights and some large ones, in each of the four formats.
ImageWidths ==
    (1..(MIN_WIDTH + WidthMargin))
      \cup ((MAX_WIDTH - WidthMargin)..(MAX_WIDTH + WidthMargin))
      \cup {842, 895, 928, 1600, 2000, 4000}

ImageHeights == (1..MaxHeight) \cup {145, 499, 500, 537, 2105}

ManyImages ==
    {Image(f, w, h, TRUE) : f \in SupportedFormats, w \in ImageWidths, h \in ImageHeights}

FileSizes == {SmallCeiling, SmallCeiling + 1, MAX_FILE_SIZE, MAX_FILE_SIZE + 1}

Contents == [size : FileSizes, image : Images]

\* Images whose plugin gives a format name, the empty name or none at all,
\* some of them wider than MAX_WIDTH or with damaged pixel data.
LabelImages ==
    {Image(f, 400, 100, TRUE) : f \in PILFormats \cup {"", NoFormat}}
      \cup { Image("JPEG", 2000, 500, TRUE),
             Image("",     2000, 500, TRUE),
             Image("PNG",  400,  100, FALSE),
             Image("",     400,  100, FALSE),
             Image("JPEG", 2000, 500, FALSE),
             NotAnImage }

----------------------------------------------------------------------------
(* The resize arithmetic of lines 85-93.                                   *)

RECURSIVE pow2(_)
pow2(n) == IF n <= 0 THEN 1 ELSE 2 * pow2(n - 1)

\* 2^n modulo w
RECURSIVE pow2mod(_, _)
pow2mod(n, w) == IF n <= 0 THEN 1 % w ELSE (2 * pow2mod(n - 1, w)) % w

\* floor(log2(n)) for n >= 1
RECURSIVE ilog2(_)
ilog2(n) == IF n <= 1 THEN 0 ELSE 1 + ilog2(n \div 2)

\* The binary exponent of target / width: the c with
\* width <= target * 2^c < 2 * width (negative when target >= 2 * width).
RECURSIVE ratio_exponent(_, _, _)
ratio_exponent(target, width, c) ==
    IF target * pow2(c) < width * pow2(-c)
      THEN ratio_exponent(target, width, c + 1)
    ELSE IF target * pow2(c) >= 2 * width * pow2(-c)
      THEN ratio_exponent(target, width, c - 1)
    ELSE c

\* Lines 92-93: ratio = target_width / img.width is an IEEE-754 double (a
\* 53-bit significand, round to nearest even), img.height * ratio is
\* rounded to a double again, and int() truncates.
\*  - When width does not divide height * target, the exact quotient is at
\*    least 1/width away from every integer, far more than the two rounding
\*    errors, and the result is the floor of the exact quotient.
\*  - When it does, the exact product is the integer N.  With k = 52 + c the
\*    significand of ratio is target * 2^k / width rounded to an integer;
\*    r = target * 2^k mod width is what the rounding dropped.  r = 0 or
\*    2r > width: ratio is exact or rounded up, and the product rounds to N.
\*    Otherwise the product is N - height * r / (width * 2^k), and it rounds
\*    to the double below N, which int() truncates to N - 1, exactly when
\*    that deficit exceeds half the spacing of the doubles below N.
float_height(height, target, width) ==
    LET p == height * target
        N == p \div width
        c == ratio_exponent(target, width, 0)
        r == (target * pow2mod(52 + c, width)) % width
        j == ilog2(N)
        e == IF N = pow2(j) THEN c + j ELSE c + j + 1
    IN  IF p % width # 0 THEN N
        ELSE IF r = 0 \/ 2 * r > width THEN N
        ELSE IF 4 * height * r <= width * pow2(e) THEN N
        ELSE N - 1

\* A faulty resize policy: narrow images are left as they are.
target_width_no_upscale(width) ==
    IF width > MAX_WIDTH THEN MAX_WIDTH ELSE width

\* Lines 85-90: the width the image is brought to.
target_width(width) ==
    IF width > MAX_WIDTH THEN MAX_WIDTH
    ELSE IF width < MIN_WIDTH THEN MIN_WIDTH
    ELSE width

\* A faulty resize test: the two limits themselves are resized too.
needs_resize_inclusive(width) == width >= MAX_WIDTH \/ width <= MIN_WIDTH

\* Line 85
needs_resize(width) == width > MAX_WIDTH \/ width < MIN_WIDTH

\* round(a / b) for a >= 0, b > 0, halves going to the even neighbour as
\* Python's round does.
round_div(a, b) ==
    LET q == a \div b
        r == a % b
    IN  IF 2 * r < b THEN q
        ELSE IF 2 * r > b THEN q + 1
        ELSE IF q % 2 = 0 THEN q ELSE q + 1

\* A faulty height: rounded to the nearest integer instead of truncated.
new_height_rounded(img) ==
    round_div(img.height * target_width(img.width), img.width)

\* A faulty height: the ratio taken by integer division.
new_height_integer_ratio(img) ==
    img.height * (target_width(img.width) \div img.width)

\* Line 93
new_height(img) == float_height(img.height, target_width(img.width), img.width)

\* Line 94: Image.resize gives a new image (it carries no format) of the
\* requested size.
resize(img) == Image(NoFormat, target_width(img.width), new_height(img), img.intact)

----------------------------------------------------------------------------
(* Re-encoding and the data URI, lines 96-111.                             *)

\* str.lower on the format names.
lower(format) ==
    CASE format = "PNG"  -> "png"
      [] format = "JPEG" -> "jpeg"
      [] format = "GIF"  -> "gif"
      [] format = "WEBP" -> "webp"
      [] format = "BMP"  -> "bmp"
      [] format = "TIFF" -> "tiff"
      [] OTHER           -> format

\* The first bytes PIL's encoders write for each format.
magic(image_format) ==
    CASE image_format = "png"  -> <<137, 80, 78, 71>>
      [] image_format = "jpeg" -> <<255, 216, 255>>
      [] image_format = "gif"  -> <<71, 73, 70>>
      [] image_format = "webp" -> <<82, 73, 70, 70>>
      [] image_format = "bmp"  -> <<66, 77>>
      [] image_format = "tiff" -> <<73, 73, 42, 0>>

\* Image.save into the BytesIO, lines 97-102: the encoded file is kept to
\* what a decoder reads back from it, the format's signature and the pixel
\* dimensions (two bytes each, big-endian).  The JPEG quality of line 99
\* changes neither.
save(img, image_format) ==
    magic(image_format)
      \o <<img.width \div 256, img.width % 256>>
      \o <<img.height \div 256, img.height % 256>>

\* The base64 alphabet of RFC 4648.
b64alphabet ==
    << "A","B","C","D","E","F","G","H","I","J","K","L","M","N","O","P",
       "Q","R","S","T","U","V","W","X","Y","Z","a","b","c","d","e","f",
       "g","h","i","j","k","l","m","n","o","p","q","r","s","t","u","v",
       "w","x","y","z","0","1","2","3","4","5","6","7","8","9","+","/" >>

b64char(sextet) == b64alphabet[sextet + 1]

\* base64.b64encode, line 105: three bytes give four characters; a last
\* group of one or two bytes is padded with "=".  No line breaks are added.
RECURSIVE b64encode(_)
b64encode(bytes) ==
    IF bytes = <<>> THEN <<>>
    ELSE IF Len(bytes) = 1
      THEN << b64char(bytes[1] \div 4),
              b64char((bytes[1] % 4) * 16), "=", "=" >>
    ELSE IF Len(bytes) = 2
      THEN << b64char(bytes[1] \div 4),
              b64char((bytes[1] % 4) * 16 + bytes[2] \div 16),
              b64char((bytes[2] % 16) * 4), "=" >>
    ELSE << b64char(bytes[1] \div 4),
            b64char((bytes[1] % 4) * 16 + bytes[2] \div 16),
            b64char((bytes[2] % 16) * 4 + bytes[3] \div 64),
            b64char(bytes[3] % 64) >>
           \o b64encode(SubSeq(bytes, 4, Len(bytes)))

\* A sequence of characters as one string.
RECURSIVE str(_)
str(chars) == IF chars = <<>> THEN "" ELSE Head(chars) \o str(Tail(chars))

\* A faulty data URI: the "image/" of the media type is missing.
data_uri_no_type(image_format, base64_data) ==
    "data:" \o image_format \o ";base64," \o str(base64_data)

\* The f-string of line 110.
data_uri(image_format, base64_data) ==
    "data:image/" \o image_format \o ";base64," \o str(base64_data)

\* TextContent(type="text", text=...), lines 108-111.
TextContent(text) == [type |-> "text", text |-> text]

----------------------------------------------------------------------------
(* os.path.splitext and the extension fallback, lines 76-82.               *)

\* Index of the last occurrence of ch in s, 0 when there is none.
RECURSIVE rfind(_, _)
rfind(s, ch) ==
    IF s = <<>> THEN 0
    ELSE IF s[Len(s)] = ch THEN Len(s)
    ELSE rfind(SubSeq(s, 1, Len(s) - 1), ch)

\* str.lstrip('.')
RECURSIVE lstrip_dot(_)
lstrip_dot(s) ==
    IF s # <<>> /\ Head(s) = "." THEN lstrip_dot(Tail(s)) ELSE s

\* Whether s[from..to] has a character other than "."
has_non_dot(s, from, to) == \E i \in from..to : s[i] # "."

\* os.path.splitext(p)[1]: the text from the last dot of the last
\* component, unless that component has only dots before it.
splitext_ext(p) ==
    LET sepIndex == rfind(p, "/")
        dotIndex == rfind(p, ".")
    IN  IF dotIndex > sepIndex /\ has_non_dot(p, sepIndex + 1, dotIndex - 1)
          THEN SubSeq(p, dotIndex, Len(p))
        ELSE <<>>

\* str.lower on the characters of a path.
UpperCase == <<"A", "B", "C", "D", "E", "F", "G", "H", "I", "J", "K", "L", "M",
               "N", "O", "P", "Q", "R", "S", "T", "U", "V", "W", "X", "Y", "Z">>

LowerCase == <<"a", "b", "c", "d", "e", "f", "g", "h", "i", "j", "k", "l", "m",
               "n", "o", "p", "q", "r", "s", "t", "u", "v", "w", "x", "y", "z">>

lower_char(ch) ==
    IF \E i \in DOMAIN UpperCase : UpperCase[i] = ch
      THEN LowerCase[CHOOSE i \in DOMAIN UpperCase : UpperCase[i] = ch]
    ELSE ch

str_lower(s) == [i \in 1..Len(s) |-> lower_char(s[i])]

\* Lines 76-82: the format named by the extension, "" when it names none.
format_of_extension(full_path) ==
    LET ext == lstrip_dot(str_lower(splitext_ext(full_path)))
    IN  IF ext \in {<<"j","p","g">>, <<"j","p","e","g">>} THEN "jpeg"
        ELSE IF ext = <<"p","n","g">> THEN "png"
        ELSE IF ext = <<"g","i","f">> THEN "gif"
        ELSE IF ext = <<"w","e","b","p">> THEN "webp"
        ELSE ""

----------------------------------------------------------------------------
(* State.                                                                  *)

VARIABLES
    allowed_directory,  \* state.allowed_directory
    fs,                 \* the file system: node -> entry
    pc,                 \* per call: where handle_read_image_file stands
    arguments,          \* per call: the arguments dict
    frame,              \* per call: the local variables of the handler
    handle,             \* per call: the node Image.open holds open, or None
    result,             \* per call: the list returned, <<>> until then
    error,              \* per call: the message of the ValueError raised
    syscalls,           \* per call: the file-system accesses made so far
    github              \* the call of a GitHub handler: where it stands, its
                        \* connection, what was sent and read, the exception
                        \* caught (exception) or let through (raised)

image_vars == <<allowed_directory, fs, pc, arguments, frame, handle, result,
                error, syscalls>>

vars == <<image_vars, github>>

\* The calls that may be in progress.
Calls == {1, 2}

\* The calls of a caller that awaits one call.
Sequential == {1}

PathValues == Strings(MaxPathLen) \cup {None}

MaxSizes == {SmallCeiling}

\* The arguments dicts: "path" and "max_size" may each be absent.
ArgumentDicts ==
    {[path |-> p, max_size |-> m] : p \in PathValues, m \in MaxSizes}
      \cup {[path |-> p] : p \in PathValues}
      \cup {[max_size |-> m] : m \in MaxSizes}

\* dict.get(key, default)
get(dict, key, default) == IF key \in DOMAIN dict THEN dict[key] ELSE default

NoFrame ==
    [path |-> None, max_size |-> 0, full_path |-> <<>>, file_size |-> 0,
     img |-> NotAnImage, image_format |-> "", target_width |-> 0,
     new_height |-> 0, img_byte_arr |-> <<>>, base64_data |-> <<>>]

\* A response body not read yet.
NoBody == [raw |-> "", kind |-> "none", items |-> <<>>, pretty |-> ""]

\* No GitHub handler called: no connection, nothing sent, nothing returned.
NoGitHubCall ==
    [pc |-> "idle", handler |-> "", args |-> <<>>, conn |-> "none", opened |-> 0,
     sent |-> <<>>, status |-> 0, body |-> NoBody, result |-> <<>>,
     exception |-> "", raised |-> ""]

\* The state before any call, on one of trees.
InitOn(trees) ==
    /\ github = NoGitHubCall
    /\ allowed_directory = <<"/", "d">>
    /\ fs \in trees
    /\ pc = [c \in Calls |-> "idle"]
    /\ arguments = [c \in Calls |-> None]
    /\ frame = [c \in Calls |-> NoFrame]
    /\ handle = [c \in Calls |-> None]
    /\ result = [c \in Calls |-> <<>>]
    /\ error = [c \in Calls |-> ""]
    /\ syscalls = [c \in Calls |-> <<>>]

\* The state before any call, the files holding one of contents.
InitWith(contents) == InitOn({Tree(content) : content \in contents})

Init == InitWith(Contents)

\* Small files holding the images of ManyImages, and calls that name the
\* file /d/d.
InitImages == InitWith([size : {SmallCeiling}, image : ManyImages])

ImageDicts == {[path |-> <<"d">>], [path |-> <<"d">>, max_size |-> SmallCeiling]}

\* Small files named with extensions holding the images of LabelImages,
\* and calls that name them.
InitFormats ==
    InitOn({ExtensionTree([size |-> SmallCeiling, image |-> image]) : image \in LabelImages})

FormatDicts == {[path |-> name] : name \in ExtensionNames}

\* A few contents and a few calls that between them take every way through
\* the handler: images that are returned as they are, resized, refused by
\* resize, damaged, of another format and no image, in files at and above
\* the ceiling; calls without a path, with the empty path, leaving the
\* allowed directory, naming nothing, the directory itself, the link loop,
\* the link out of the directory, the sibling /dd and the file /d/d.
SmallImages ==
    { Image("PNG",  400,  100, TRUE),
      Image("JPEG", 2000, 500, TRUE),
      Image("JPEG", 2000, 1,   TRUE),
      Image("PNG",  400,  100, FALSE),
      Image("BMP",  300,  200, TRUE),
      NotAnImage }

InitSmall == InitWith([size : {SmallCeiling, SmallCeiling + 1}, image : SmallImages])

SmallDicts ==
    { [max_size |-> SmallCeiling],
      [path |-> <<>>],
      [path |-> <<".", ".">>],
      [path |-> <<"d", ".", ".">>],
      [path |-> <<".">>],
      [path |-> <<"d", ".">>],
      [path |-> <<"d", "d">>],
      [path |-> <<"/", "d", "d">>],
      [path |-> <<"d">>],
      [path |-> <<"d">>, max_size |-> SmallCeiling] }

\* One access to the file system: the operation, the path handed to it, the
\* node the kernel resolved it to and what the call learnt from it.
Syscall(op, path, node, seen) ==
    [op |-> op, path |-> path, node |-> node, seen |-> seen]

\* A faulty failure: the call starts over instead of ending.
raise_and_retry(c, message) ==
    /\ pc' = [pc EXCEPT ![c] = "arguments"]
    /\ error' = [error EXCEPT ![c] = message]

\* A faulty failure: the message is kept in one place for all calls.
raise_shared(c, message) ==
    /\ pc' = [pc EXCEPT ![c] = "failed"]
    /\ error' = [d \in Calls |-> message]

\* raise ValueError(message), outside the try block (lines 47-67).
Raise(c, message) ==
    /\ pc' = [pc EXCEPT ![c] = "failed"]
    /\ error' = [error EXCEPT ![c] = message]

\* A faulty exit: the exception leaves the image open.
raise_and_leak(c, message) ==
    /\ pc' = [pc EXCEPT ![c] = "failed"]
    /\ error' = [error EXCEPT ![c] = "Error reading image file: " \o message]
    /\ UNCHANGED handle

\* An exception inside "with Image.open(...)": the with statement closes
\* the image, and lines 114-115 wrap the message.
RaiseInTry(c, message) ==
    /\ pc' = [pc EXCEPT ![c] = "failed"]
    /\ error' = [error EXCEPT ![c] = "Error reading image file: " \o message]
    /\ handle' = [handle EXCEPT ![c] = None]

----------------------------------------------------------------------------
(* handle_read_image_file, one action per step.                            *)

\* The caller invokes the handler.
Call(c, dict) ==
    /\ pc[c] = "idle"
    /\ pc' = [pc EXCEPT ![c] = "arguments"]
    /\ arguments' = [arguments EXCEPT ![c] = dict]
    /\ UNCHANGED <<github, allowed_directory, fs, frame, handle, result, error, syscalls>>

\* A faulty test of line 46: the empty string counts as a path.
missing_only_none(path) == path = None

\* Line 46: "not path"
missing(path) == path = None \/ path = <<>>

\* Lines 43-47
ReadArguments(c) ==
    /\ pc[c] = "arguments"
    /\ LET path     == get(arguments[c], "path", None)
           max_size == get(arguments[c], "max_size", MAX_FILE_SIZE)
       IN  /\ frame' = [frame EXCEPT ![c].path = path, ![c].max_size = max_size]
           /\ IF missing(path)
                THEN Raise(c, "path must be provided")
              ELSE /\ pc' = [pc EXCEPT ![c] = "resolve"]
                   /\ UNCHANGED error
    /\ UNCHANGED <<github, allowed_directory, fs, arguments, handle, result, syscalls>>

\* Lines 50-54
resolve(root, path) ==
    IF isabs(path) THEN abspath(path) ELSE abspath(join(root, path))

\* Line 56
within_allowed(full_path, root) == startswith(full_path, root)

\* Lines 50-57
ResolvePath(c) ==
    /\ pc[c] = "resolve"
    /\ LET full_path == resolve(allowed_directory, frame[c].path)
       IN  /\ frame' = [frame EXCEPT ![c].full_path = full_path]
           /\ IF ~within_allowed(full_path, allowed_directory)
                THEN Raise(c, "Access denied")
              ELSE /\ pc' = [pc EXCEPT ![c] = "exists"]
                   /\ UNCHANGED error
    /\ UNCHANGED <<github, allowed_directory, fs, arguments, handle, result, syscalls>>

\* Lines 59-60
CheckExists(c) ==
    /\ pc[c] = "exists"
    /\ LET full_path == frame[c].full_path
           found     == exists(fs, full_path)
       IN  /\ syscalls' = [syscalls EXCEPT ![c] =
                 Append(@, Syscall("exists", full_path, stat(fs, full_path).node, found))]
           /\ IF ~found
                THEN Raise(c, "File does not exist")
              ELSE /\ pc' = [pc EXCEPT ![c] = "isfile"]
                   /\ UNCHANGED error
    /\ UNCHANGED <<github, allowed_directory, fs, arguments, frame, handle, result>>

\* Lines 61-62
CheckIsFile(c) ==
    /\ pc[c] = "isfile"
    /\ LET full_path == frame[c].full_path
           regular   == isfile(fs, full_path)
       IN  /\ syscalls' = [syscalls EXCEPT ![c] =
                 Append(@, Syscall("isfile", full_path, stat(fs, full_path).node, regular))]
           /\ IF ~regular
                THEN Raise(c, "Path is not a file")
              ELSE /\ pc' = [pc EXCEPT ![c] = "getsize"]
                   /\ UNCHANGED error
    /\ UNCHANGED <<github, allowed_directory, fs, arguments, frame, handle, result>>

\* A faulty size gate: a file of exactly the ceiling is turned away.
exceeds_or_equal(file_size, max_size) == file_size >= max_size

\* Line 66
exceeds(file_size, max_size) == file_size > max_size

\* Lines 65-67.  The path is looked up again: where it resolves no more,
\* os.path.getsize raises OSError, which nothing catches (the try block
\* starts at line 69).
CheckSize(c) ==
    /\ pc[c] = "getsize"
    /\ LET full_path == frame[c].full_path
           st        == stat(fs, full_path)
           file_size == getsize(fs, full_path)
       IN  IF st.errno # "OK"
             THEN /\ syscalls' = [syscalls EXCEPT ![c] =
                        Append(@, Syscall("getsize", full_path, st.node, st.errno))]
                  /\ Raise(c, strerror(st.errno))
                  /\ UNCHANGED frame
           ELSE /\ syscalls' = [syscalls EXCEPT ![c] =
                      Append(@, Syscall("getsize", full_path, st.node, file_size))]
                /\ frame' = [frame EXCEPT ![c].file_size = file_size]
                /\ IF exceeds(file_size, frame[c].max_size)
                     THEN Raise(c, "File size exceeds maximum allowed size")
                   ELSE /\ pc' = [pc EXCEPT ![c] = "open"]
                        /\ UNCHANGED error
    /\ UNCHANGED <<github, allowed_directory, fs, arguments, handle, result>>

\* Line 71, with lines 112-113: Image.open reads the header of the file and
\* keeps the file open; a file no plugin identifies raises
\* UnidentifiedImageError, which closes nothing that the call still holds.
\* The path is looked up once more by open(): where it resolves no more,
\* or to a directory, open() raises OSError inside the try block; a device
\* node is opened and read, and gives no image.
OpenImage(c) ==
    /\ pc[c] = "open"
    /\ LET full_path == frame[c].full_path
           st        == stat(fs, full_path)
           image     == IF fs[st.node].kind = "file" THEN fs[st.node].content.image
                        ELSE NotAnImage
       IN  IF st.errno # "OK"
             THEN /\ syscalls' = [syscalls EXCEPT ![c] =
                        Append(@, Syscall("open", full_path, st.node, NotAnImage))]
                  /\ RaiseInTry(c, strerror(st.errno))
                  /\ UNCHANGED frame
           ELSE IF fs[st.node].kind = "dir"
             THEN /\ syscalls' = [syscalls EXCEPT ![c] =
                        Append(@, Syscall("open", full_path, st.node, NotAnImage))]
                  /\ RaiseInTry(c, "[Errno 21] Is a directory")
                  /\ UNCHANGED frame
           ELSE /\ syscalls' = [syscalls EXCEPT ![c] =
                      Append(@, Syscall("open", full_path, st.node, image))]
                /\ IF image = NotAnImage
                     THEN /\ Raise(c, "File is not a valid image")
                          /\ UNCHANGED <<frame, handle>>
                   ELSE /\ frame' = [frame EXCEPT ![c].img = image]
                        /\ handle' = [handle EXCEPT ![c] = st.node]
                        /\ pc' = [pc EXCEPT ![c] = "format"]
                        /\ UNCHANGED error
    /\ UNCHANGED <<github, allowed_directory, fs, arguments, result>>

\* A faulty choice of format: the extension is asked first, the decoded
\* format only when the extension names none.
image_format_by_extension(img, full_path) ==
    IF format_of_extension(full_path) # "" THEN format_of_extension(full_path)
    ELSE lower(img.format)

\* Lines 73-82
image_format_of(img, full_path) ==
    IF lower(img.format) # "" THEN lower(img.format)
    ELSE format_of_extension(full_path)

\* Lines 73-82.  On an image without a format, img.format is None and
\* line 73 raises AttributeError before the extension is looked at.
DetermineFormat(c) ==
    /\ pc[c] = "format"
    /\ LET image_format == image_format_of(frame[c].img, frame[c].full_path)
       IN  IF frame[c].img.format = NoFormat
             THEN /\ RaiseInTry(c, "'NoneType' object has no attribute 'lower'")
                  /\ UNCHANGED frame
           ELSE IF image_format = ""
             THEN /\ RaiseInTry(c, "Unsupported image format")
                  /\ UNCHANGED frame
           ELSE /\ frame' = [frame EXCEPT ![c].image_format = image_format]
                /\ pc' = [pc EXCEPT ![c] = "resize"]
                /\ UNCHANGED <<error, handle>>
    /\ UNCHANGED <<github, allowed_directory, fs, arguments, result, syscalls>>

\* Lines 84-94.  Image.resize refuses a size with a side below 1, and loads
\* the pixel data, which fails on a file whose data is damaged.
ResizeImage(c) ==
    /\ pc[c] = "resize"
    /\ LET img == frame[c].img
           measured == [frame EXCEPT ![c].target_width = target_width(img.width),
                                     ![c].new_height = new_height(img)]
       IN  IF ~needs_resize(img.width)
             THEN /\ pc' = [pc EXCEPT ![c] = "save"]
                  /\ UNCHANGED <<frame, error, handle>>
           ELSE IF new_height(img) < 1
             THEN /\ RaiseInTry(c, "height and width must be > 0")
                  /\ frame' = measured
           ELSE IF ~img.intact
             THEN /\ RaiseInTry(c, "image file is truncated")
                  /\ frame' = measured
           ELSE /\ frame' = [measured EXCEPT ![c].img = resize(img)]
                /\ pc' = [pc EXCEPT ![c] = "save"]
                /\ UNCHANGED <<error, handle>>
    /\ UNCHANGED <<github, allowed_directory, fs, arguments, result, syscalls>>

\* Lines 96-102.  Image.save loads the pixel data if resize has not.
SaveImage(c) ==
    /\ pc[c] = "save"
    /\ LET img == frame[c].img
       IN  IF ~img.intact
             THEN /\ RaiseInTry(c, "image file is truncated")
                  /\ UNCHANGED frame
           ELSE /\ frame' = [frame EXCEPT ![c].img_byte_arr =
                                save(img, frame[c].image_format)]
                /\ pc' = [pc EXCEPT ![c] = "encode"]
                /\ UNCHANGED <<error, handle>>
    /\ UNCHANGED <<github, allowed_directory, fs, arguments, result, syscalls>>

\* Lines 104-111: the return leaves the with block, which closes the image.
EncodeResult(c) ==
    /\ pc[c] = "encode"
    /\ LET base64_data == b64encode(frame[c].img_byte_arr)
       IN  /\ frame' = [frame EXCEPT ![c].base64_data = base64_data]
           /\ result' = [result EXCEPT ![c] =
                 <<TextContent(data_uri(frame[c].image_format, base64_data))>>]
    /\ handle' = [handle EXCEPT ![c] = None]
    /\ pc' = [pc EXCEPT ![c] = "done"]
    /\ UNCHANGED <<github, allowed_directory, fs, arguments, error, syscalls>>

Step(c, dicts) ==
    \/ \E dict \in dicts : Call(c, dict)
    \/ ReadArguments(c)
    \/ ResolvePath(c)
    \/ CheckExists(c)
    \/ CheckIsFile(c)
    \/ CheckSize(c)
    \/ OpenImage(c)
    \/ DetermineFormat(c)
    \/ ResizeImage(c)
    \/ SaveImage(c)
    \/ EncodeResult(c)

Next == \E c \in Sequential : Step(c, ArgumentDicts)

Spec == Init /\ [][Next]_vars

\* The handler run on many image sizes.
NextImages == \E c \in Sequential : Step(c, ImageDicts)

SpecImages == InitImages /\ [][NextImages]_vars

\* Two calls of the handler on files named with extensions, their steps
\* interleaved.
NextFormats == \E c \in Calls : Step(c, FormatDicts)

SpecFormats == InitFormats /\ [][NextFormats]_vars

\* One call at a time on the small inputs.  The handler has no await: once
\* called it runs on, so its steps are taken as long as it has one.
NextSmall == \E c \in Sequential : Step(c, SmallDicts)

SpecPipeline == InitSmall /\ [][NextSmall]_vars /\ WF_vars(NextSmall)

\* Two calls on the small inputs, their steps interleaved in every way
\* (calls served by different threads); the file system does not change.
NextConcurrent == \E c \in Calls : Step(c, SmallDicts)

SpecConcurrent == InitSmall /\ [][NextConcurrent]_vars

\* Another process of the machine works on the file /d/d while a call is
\* under way: os.path.exists, isfile, getsize and Image.open (lines 59-71)
\* each look the path up anew, and nothing holds the file between them.
RacedNode == << <<"d">>, <<"d">> >>

\* What the other process may rename over the name: a file above the
\* ceiling, a file that is no image, a device node, and symbolic links to
\* the file /.d outside the allowed directory, to the device /d/.d and to
\* nothing.
RaceEntries ==
    { File([size |-> SmallCeiling + 1, image |-> Image("PNG", 400, 100, TRUE)]),
      File([size |-> SmallCeiling, image |-> NotAnImage]),
      Device,
      Link(<< <<".", "d">> >>),
      Link(<< <<"d">>, <<".", "d">> >>),
      Link(<< <<"d">>, <<"d", "d", "d">> >>) }

\* rename(2) of another entry over the name: the name is never absent.
Rename(node, entry) ==
    /\ fs[node] # entry
    /\ fs' = [fs EXCEPT ![node] = entry]
    /\ UNCHANGED <<github, allowed_directory, pc, arguments, frame, handle, result,
                   error, syscalls>>

\* The other process appends to the file, up to one byte above the ceiling.
Grow(node) ==
    /\ fs[node].kind = "file"
    /\ fs[node].content.size <= SmallCeiling
    /\ fs' = [fs EXCEPT ![node].content.size = @ + 1]
    /\ UNCHANGED <<github, allowed_directory, pc, arguments, frame, handle, result,
                   error, syscalls>>

InitRace == InitWith([size : {SmallCeiling}, image : {Image("PNG", 400, 100, TRUE)}])

NextRace ==
    \/ \E c \in Sequential : Step(c, ImageDicts)
    \/ \E entry \in RaceEntries : Rename(RacedNode, entry)
    \/ Grow(RacedNode)

SpecRace == InitRace /\ [][NextRace]_vars

\* handle_read_image_file run from call to return with nothing else
\* running: what it returns or raises for the arguments dict, on the tree,
\* with the allowed directory root.
Alone(dict, tree, root) ==
    LET path      == get(dict, "path", None)
        max_size  == get(dict, "max_size", MAX_FILE_SIZE)
        full_path == resolve(root, path)
        image     == tree[stat(tree, full_path).node].content.image
        fmt       == image_format_of(image, full_path)
        sized     == IF needs_resize(image.width) THEN resize(image) ELSE image
        raised(message)   == [result |-> <<>>, error |-> message]
        in_try(message)   == raised("Error reading image file: " \o message)
    IN  IF missing(path) THEN raised("path must be provided")
        ELSE IF ~within_allowed(full_path, root) THEN raised("Access denied")
        ELSE IF ~exists(tree, full_path) THEN raised("File does not exist")
        ELSE IF ~isfile(tree, full_path) THEN raised("Path is not a file")
        ELSE IF exceeds(getsize(tree, full_path), max_size)
          THEN raised("File size exceeds maximum allowed size")
        ELSE IF image = NotAnImage THEN raised("File is not a valid image")
        ELSE IF image.format = NoFormat
          THEN in_try("'NoneType' object has no attribute 'lower'")
        ELSE IF fmt = "" THEN in_try("Unsupported image format")
        ELSE IF needs_resize(image.width) /\ new_height(image) < 1
          THEN in_try("height and width must be > 0")
        ELSE IF ~image.intact THEN in_try("image file is truncated")
        ELSE [result |-> <<TextContent(data_uri(fmt, b64encode(save(sized, fmt))))>>,
              error  |-> ""]

----------------------------------------------------------------------------
(* The GitHub handlers of github_tools.py: handle_create_pull_request_review *)
(* (lines 199-241), handle_get_pull_request_files (347-433) and             *)
(* handle_list_pull_requests (436-526), and handle_list_issues (529-628).    *)

Handlers ==
    {"create_pull_request_review", "get_pull_request_files", "list_pull_requests",
     "list_issues"}

\* The arguments each handler requires (lines 208, 352, 447, 541).
Required(handler) ==
    CASE handler = "create_pull_request_review" -> <<"owner", "repo", "pull_number", "event">>
      [] handler = "get_pull_request_files"     -> <<"owner", "repo", "pull_number">>
      [] handler = "list_pull_requests"         -> <<"owner", "repo">>
      [] handler = "list_issues"                -> <<"owner", "repo">>

\* Python's truth value of an argument: numbers, lists and strings by key.
truthy(key, value) ==
    CASE key \in {"pull_number", "per_page"} -> value # 0
      [] key = "comments"                    -> value # <<>>
      [] OTHER                               -> value # ""

\* args.get(key) is there and true.
given(args, key) == key \in DOMAIN args /\ truthy(key, args[key])

\* A faulty test of the required arguments: one of them is enough.
any_given(args, keys) == \E i \in DOMAIN keys : given(args, keys[i])

\* all([...]) of lines 208, 352 and 447
all_given(args, keys) == \A i \in DOMAIN keys : given(args, keys[i])

\* Lines 209, 353, 448
MissingText(handler) ==
    CASE handler = "create_pull_request_review" ->
           "Error: Missing required parameters: owner, repo, pull_number, event."
      [] handler = "get_pull_request_files" ->
           "Error: Missing required parameters. Required parameters are owner, repo, and pull_number."
      [] handler \in {"list_pull_requests", "list_issues"} ->
           "Error: Missing required parameters. Required parameters are owner and repo."

\* Lines 238, 430, 523, 625: the text returned for an exception with message e.
ExceptText(handler, e) ==
    CASE handler = "create_pull_request_review" -> "Exception occurred: " \o e
      [] handler = "get_pull_request_files" -> "Error fetching pull request files: " \o e
      [] handler = "list_pull_requests" -> "Error fetching pull requests: " \o e
      [] handler = "list_issues" -> "Error fetching issues: " \o e

\* Lines 230, 374, 476
Method(handler) == IF handler = "create_pull_request_review" THEN "POST" ELSE "GET"

\* Lines 451-455
query_params(args) ==
    "state=" \o get(args, "state", "open")
      \o "&sort=" \o get(args, "sort", "created")
      \o "&direction=" \o get(args, "direction", "desc")
      \o "&per_page=" \o ToString(get(args, "per_page", 30))
      \o (IF given(args, "head") THEN "&head=" \o args.head ELSE "")
      \o (IF given(args, "base") THEN "&base=" \o args.base ELSE "")

\* Lines 545-551
issue_query_params(args) ==
    "state=" \o get(args, "state", "open")
      \o "&sort=" \o get(args, "sort", "created")
      \o "&direction=" \o get(args, "direction", "desc")
      \o "&per_page=" \o ToString(get(args, "per_page", 30))
      \o (IF given(args, "labels") THEN "&labels=" \o args.labels ELSE "")
      \o (IF given(args, "assignee") THEN "&assignee=" \o args.assignee ELSE "")
      \o (IF given(args, "creator") THEN "&creator=" \o args.creator ELSE "")

\* Lines 211, 356, 458, 554
api_path(handler, args) ==
    CASE handler = "create_pull_request_review" ->
           "/repos/" \o args.owner \o "/" \o args.repo \o "/pulls/"
               \o ToString(args.pull_number) \o "/reviews"
      [] handler = "get_pull_request_files" ->
           "/repos/" \o args.owner \o "/" \o args.repo \o "/pulls/"
               \o ToString(args.pull_number) \o "/files"
      [] handler = "list_pull_requests" ->
           "/repos/" \o args.owner \o "/" \o args.repo \o "/pulls?" \o query_params(args)
      [] handler = "list_issues" ->
           "/repos/" \o args.owner \o "/" \o args.repo \o "/issues?"
               \o issue_query_params(args)

\* Lines 222-228: the payload of the review, the keys with a true value.
payload(args) ==
    LET keys == {"event"} \cup {k \in {"body", "commit_id", "comments"} : given(args, k)}
    IN  [k \in keys |-> args[k]]

\* What conn.request sends: the review's payload goes as JSON text, kept
\* here as the dict that text encodes.
request_of(handler, args) ==
    IF handler = "create_pull_request_review"
      THEN [method |-> Method(handler), path |-> api_path(handler, args),
            body |-> payload(args)]
    ELSE [method |-> Method(handler), path |-> api_path(handler, args)]

\* The statuses GitHub answers with here, and response.reason for each.
Statuses == {200, 201, 404, 422, 500}

Reason(status) ==
    CASE status = 200 -> "OK"
      [] status = 201 -> "Created"
      [] status = 404 -> "Not Found"
      [] status = 422 -> "Unprocessable Entity"
      [] status = 500 -> "Internal Server Error"

\* A response body: its text; whether json.loads refuses it ("invalid") or
\* gives a list or an object; the entries of the list; and, for the bodies
\* of reviews, json.dumps(..., indent=2) of what json.loads gives.
Body(raw, kind, items, pretty) ==
    [raw |-> raw, kind |-> kind, items |-> items, pretty |-> pretty]

NotJson == Body("<html>Bad gateway</html>", "invalid", <<>>, "")

\* An object such as GitHub sends with an error.
MessageObject ==
    Body("{\"message\": \"Validation Failed\"}", "object", <<>>,
         "{\n  \"message\": \"Validation Failed\"\n}")

ReviewObject ==
    Body("{\"id\": 123, \"body\": \"Review posted!\", \"event\": \"COMMENT\"}", "object", <<>>,
         "{\n  \"id\": 123,\n  \"body\": \"Review posted!\",\n  \"event\": \"COMMENT\"\n}")

\* JSON null as the value of a key.
JsonNull == [null |-> TRUE]

\* The characters the handlers write that are outside ASCII, by name.
EmojiAdded == ":new:"

EmojiModified == ":pencil:"

EmojiRemoved == ":wastebasket:"

EmojiOther == ":page:"

Arrow == "->"

\* The three grave accents that open and close a block of code.
Fence == "~~~"

\* Line 409
PatchLimit == 10000

\* A text of n characters.
RECURSIVE text_of_length(_)
text_of_length(n) ==
    IF n = 0 THEN ""
    ELSE IF n % 2 = 1 THEN "+" \o text_of_length(n - 1)
    ELSE LET half == text_of_length(n \div 2) IN half \o half

\* Entries of the list of changed files: with every key, with a patch, with
\* few keys, and with a patch of PatchLimit characters.
FileEntries ==
    { [filename |-> "a.py", status |-> "added", additions |-> 3, deletions |-> 0,
       changes |-> 3, blob_url |-> "https://github.com/o/r/blob/a.py"],
      [filename |-> "b.py", status |-> "modified", additions |-> 1, deletions |-> 2,
       changes |-> 3, patch |-> "@@ -1 +1 @@"],
      [status |-> "removed", deletions |-> 5],
      [filename |-> "c.bin", status |-> "renamed", additions |-> 7, deletions |-> 7,
       changes |-> 14, patch |-> text_of_length(PatchLimit)] }

\* Entries of the list of pull requests: with every key, with none but the
\* number, and with a null user.
PullEntries ==
    { [number |-> 1, title |-> "Fix", state |-> "open", user |-> [login |-> "alice"],
       head |-> [label |-> "alice:fix"], base |-> [label |-> "o:main"],
       created_at |-> "2024-01-01T00:00:00Z",
       html_url |-> "https://github.com/o/r/pull/1"],
      [number |-> 2],
      [number |-> 3, title |-> "Ghost", user |-> JsonNull] }

\* Entries of the list of issues: an issue with every key, a pull request
\* (the API lists pull requests among the issues, with a "pull_request"
\* key), an issue with its number alone, and an issue with a null user.
IssueEntries ==
    { [number |-> 7, title |-> "Bug", state |-> "open", user |-> [login |-> "bob"],
       labels |-> << [name |-> "bug"], [name |-> "ui"] >>,
       created_at |-> "2024-02-02T00:00:00Z",
       html_url |-> "https://github.com/o/r/issues/7"],
      [number |-> 8, title |-> "Fix", state |-> "open", user |-> [login |-> "alice"],
       pull_request |-> [url |-> "https://api.github.com/repos/o/r/pulls/8"]],
      [number |-> 9],
      [number |-> 10, title |-> "Ghost", user |-> JsonNull] }


\* The lists a response may hold: up to MaxItems entries.
MaxItems == 2

RECURSIVE Lists(_, _)
Lists(entries, n) ==
    IF n = 0 THEN {<<>>}
    ELSE Lists(entries, n - 1)
           \cup {Append(l, e) : l \in {m \in Lists(entries, n - 1) : Len(m) = n - 1},
                                e \in entries}

ListBody(items) == Body("[...]", "list", items, "")

\* The bodies each handler may read.
Bodies(handler) ==
    CASE handler = "create_pull_request_review" -> {ReviewObject, MessageObject, NotJson}
      [] handler = "get_pull_request_files" ->
           {ListBody(l) : l \in Lists(FileEntries, MaxItems)} \cup {MessageObject, NotJson}
      [] handler = "list_pull_requests" ->
           {ListBody(l) : l \in Lists(PullEntries, MaxItems)} \cup {MessageObject, NotJson}
      [] handler = "list_issues" ->
           {ListBody(l) : l \in Lists(IssueEntries, MaxItems)} \cup {MessageObject, NotJson}

\* What a block of the handler comes to: a text to return, or an exception.
Returns(text) == [ok |-> TRUE, text |-> text]

Raises(e) == [ok |-> FALSE, text |-> e]

\* json.loads of line 235, 384 or 486
loads(body) ==
    IF body.kind = "invalid" THEN Raises("Expecting value: line 1 column 1 (char 0)")
    ELSE Returns("")

\* "not files_data" (lines 387, 489): an empty list.
is_empty(body) == body.kind = "list" /\ body.items = <<>>

\* Line 399
status_emoji(status) ==
    IF status = "added" THEN EmojiAdded
    ELSE IF status = "modified" THEN EmojiModified
    ELSE IF status = "removed" THEN EmojiRemoved
    ELSE EmojiOther

\* Lines 393-414: the entry of one file.
file_entry(file) ==
    LET filename  == get(file, "filename", "Unknown file")
        status    == get(file, "status", "unknown")
        additions == get(file, "additions", 0)
        deletions == get(file, "deletions", 0)
        changes   == get(file, "changes", 0)
    IN  status_emoji(status) \o " **" \o filename \o "** (" \o status \o ")\n"
          \o "   - Additions: +" \o ToString(additions)
          \o ", Deletions: -" \o ToString(deletions)
          \o ", Total Changes: " \o ToString(changes) \o "\n"
          \o (IF "blob_url" \in DOMAIN file /\ file.blob_url # ""
                THEN "   - [View File](" \o file.blob_url \o ")\n" ELSE "")
          \o (IF "patch" \in DOMAIN file /\ file.patch # ""
                THEN IF Len(file.patch) < PatchLimit
                       THEN Fence \o "diff\n" \o file.patch \o "\n" \o Fence \o "\n"
                     ELSE "   - [Patch too large to display - view on GitHub]\n"
              ELSE "")
          \o "\n"

\* Lines 392-414: the entries of the files, in the order of the response.
RECURSIVE file_entries(_)
file_entries(files) ==
    IF files = <<>> THEN "" ELSE file_entry(Head(files)) \o file_entries(Tail(files))

\* sum(file.get(key, 0) for file in files_data), lines 418-419
RECURSIVE sum_of(_, _)
sum_of(files, key) ==
    IF files = <<>> THEN 0 ELSE get(Head(files), key, 0) + sum_of(Tail(files), key)

\* A faulty summary: the changes are taken from the "changes" keys.
summary_from_changes(files) ==
    "\n## Summary\n"
      \o "- Total Files Changed: " \o ToString(Len(files)) \o "\n"
      \o "- Total Additions: +" \o ToString(sum_of(files, "additions")) \o "\n"
      \o "- Total Deletions: -" \o ToString(sum_of(files, "deletions")) \o "\n"
      \o "- Total Changes: " \o ToString(sum_of(files, "changes")) \o "\n"

\* Lines 417-425
summary(files) ==
    "\n## Summary\n"
      \o "- Total Files Changed: " \o ToString(Len(files)) \o "\n"
      \o "- Total Additions: +" \o ToString(sum_of(files, "additions")) \o "\n"
      \o "- Total Deletions: -" \o ToString(sum_of(files, "deletions")) \o "\n"
      \o "- Total Changes: "
      \o ToString(sum_of(files, "additions") + sum_of(files, "deletions")) \o "\n"

\* Lines 387-427: iterating an object gives its keys, which have no get.
format_files(args, body) ==
    IF is_empty(body)
      THEN Returns("No files found in pull request #" \o ToString(args.pull_number) \o ".")
    ELSE IF body.kind # "list"
      THEN Raises("'str' object has no attribute 'get'")
    ELSE Returns("# Files Changed in Pull Request #" \o ToString(args.pull_number) \o "\n\n"
                   \o file_entries(body.items) \o summary(body.items))

\* pr.get(key, {}).get("label", "unknown") and the like (lines 505-510)
nested(pr, key, inner) ==
    IF key \notin DOMAIN pr THEN "unknown" ELSE get(pr[key], inner, "unknown")

\* Line 502
number_text(pr) == IF "number" \in DOMAIN pr THEN ToString(pr.number) ELSE "N/A"

\* Lines 502-514: the row of one pull request.
pull_row(pr) ==
    "| [" \o number_text(pr) \o "](" \o get(pr, "html_url", "") \o ") | "
      \o get(pr, "title", "No title") \o " | "
      \o get(pr, "state", "unknown") \o " | "
      \o nested(pr, "user", "login") \o " | "
      \o nested(pr, "head", "label") \o " " \o Arrow \o " " \o nested(pr, "base", "label")
      \o " | " \o get(pr, "created_at", "unknown") \o " |\n"

RECURSIVE pull_rows(_)
pull_rows(prs) ==
    IF prs = <<>> THEN "" ELSE pull_row(Head(prs)) \o pull_rows(Tail(prs))

\* A key whose value is null: .get on it raises AttributeError.
has_null(pr) == \E key \in {"user", "head", "base"} : key \in DOMAIN pr /\ pr[key] = JsonNull

\* Lines 489-520
format_pulls(args, body) ==
    LET state        == get(args, "state", "open")
        status_label == IF state = "open" THEN "open"
                        ELSE IF state = "closed" THEN "closed"
                        ELSE "matching your criteria"
        repository   == args.owner \o "/" \o args.repo
    IN  IF is_empty(body)
          THEN Returns("No " \o status_label \o " pull requests found in repository "
                         \o repository \o ".")
        ELSE IF body.kind # "list"
          THEN Raises("'str' object has no attribute 'get'")
        ELSE IF \E i \in DOMAIN body.items : has_null(body.items[i])
          THEN Raises("'NoneType' object has no attribute 'get'")
        ELSE Returns("# Pull Requests in " \o repository \o " (" \o state \o ")\n\n"
                 \o "| Number | Title | State | Creator | Head " \o Arrow
                 \o " Base | Created At |\n"
                 \o "|--------|-------|-------|---------|-------------|------------|\n"
                 \o pull_rows(body.items)
                 \o "\n\n**Total pull requests found: " \o ToString(Len(body.items)) \o "**\n"
                 \o "View all pull requests: https://github.com/" \o repository \o "/pulls\n")

\* issue.get("pull_request"), line 599: the entry is a pull request.
is_pull_request(issue) == "pull_request" \in DOMAIN issue

\* ", ".join(label_names), lines 609-611
RECURSIVE join_names(_)
join_names(labels) ==
    IF labels = <<>> THEN ""
    ELSE IF Len(labels) = 1 THEN get(labels[1], "name", "")
    ELSE get(labels[1], "name", "") \o ", " \o join_names(Tail(labels))

labels_str(issue) ==
    IF get(issue, "labels", <<>>) = <<>> THEN "none" ELSE join_names(issue.labels)

\* Lines 602-614: the row of one issue.
issue_row(issue) ==
    "| [" \o number_text(issue) \o "](" \o get(issue, "html_url", "") \o ") | "
      \o get(issue, "title", "No title") \o " | "
      \o get(issue, "state", "unknown") \o " | "
      \o nested(issue, "user", "login") \o " | "
      \o labels_str(issue) \o " | "
      \o get(issue, "created_at", "unknown") \o " |\n"

\* Lines 597-614: pull requests are passed over.
RECURSIVE issue_rows(_)
issue_rows(issues) ==
    IF issues = <<>> THEN ""
    ELSE (IF is_pull_request(Head(issues)) THEN "" ELSE issue_row(Head(issues)))
           \o issue_rows(Tail(issues))

\* A faulty count: every entry of the response.
issues_count_all(issues) == Len(issues)

\* Lines 617-618
issues_count(issues) == Len(SelectSeq(issues, LAMBDA i : ~is_pull_request(i)))

\* Lines 585-622
format_issues(args, body) ==
    LET state        == get(args, "state", "open")
        status_label == IF state = "open" THEN "open"
                        ELSE IF state = "closed" THEN "closed"
                        ELSE "matching your criteria"
        repository   == args.owner \o "/" \o args.repo
    IN  IF is_empty(body)
          THEN Returns("No " \o status_label \o " issues found in repository "
                         \o repository \o ".")
        ELSE IF body.kind # "list"
          THEN Raises("'str' object has no attribute 'get'")
        ELSE IF \E i \in DOMAIN body.items :
                   /\ ~is_pull_request(body.items[i])
                   /\ "user" \in DOMAIN body.items[i]
                   /\ body.items[i].user = JsonNull
          THEN Raises("'NoneType' object has no attribute 'get'")
        ELSE Returns("# Issues in " \o repository \o " (" \o state \o ")\n\n"
                 \o "| Number | Title | State | Creator | Labels | Created At |\n"
                 \o "|--------|-------|-------|---------|--------|------------|\n"
                 \o issue_rows(body.items)
                 \o "\n\n**Total issues found: " \o ToString(issues_count(body.items))
                 \o "**\n"
                 \o "View all issues: https://github.com/" \o repository \o "/issues\n")

\* Line 236
format_review(args, body) == Returns("Pull request review created: " \o body.pretty)

\* Lines 376-381 and 478-483 (before the body is read), lines 233-234 (after):
\* what the status alone makes the handler return; ok = FALSE stands here
\* for going on.
status_text(handler, args, status, body) ==
    CASE handler = "create_pull_request_review" ->
           IF status \notin {200, 201}
             THEN Returns("Error creating pull request review: " \o ToString(status)
                            \o " " \o Reason(status) \o "\n" \o body.raw)
           ELSE Raises("")
      [] handler = "get_pull_request_files" ->
           IF status = 404
             THEN Returns("Pull request #" \o ToString(args.pull_number)
                    \o " not found in repository " \o args.owner \o "/" \o args.repo \o ". "
                    \o "Please set GITHUB_TOKEN environment variable if you are searching for private repositories.")
           ELSE IF status # 200
             THEN Returns("Error fetching pull request files: " \o ToString(status)
                            \o " " \o Reason(status))
           ELSE Raises("")
      [] handler = "list_pull_requests" ->
           IF status = 404
             THEN Returns("Repository " \o args.owner \o "/" \o args.repo \o " not found. "
                    \o "Please set GITHUB_TOKEN environment variable if you are searching for private repositories.")
           ELSE IF status # 200
             THEN Returns("Error fetching pull requests: " \o ToString(status)
                            \o " " \o Reason(status))
           ELSE Raises("")
      [] handler = "list_issues" ->
           IF status = 404
             THEN Returns("Repository " \o args.owner \o "/" \o args.repo \o " not found. "
                    \o "Please set GITHUB_TOKEN environment variable if you are searching for private repositories.")
           ELSE IF status # 200
             THEN Returns("Error fetching issues: " \o ToString(status)
                            \o " " \o Reason(status))
           ELSE Raises("")

\* The listing, or the text of the review.
format(handler, args, body) ==
    CASE handler = "create_pull_request_review" -> format_review(args, body)
      [] handler = "get_pull_request_files"     -> format_files(args, body)
      [] handler = "list_pull_requests"         -> format_pulls(args, body)
      [] handler = "list_issues"                -> format_issues(args, body)


\* The arguments dicts of the calls: complete ones, with optional keys, and
\* ones where a required key is absent or has a false value.
ReviewArgs ==
    LET full == [owner |-> "o", repo |-> "r", pull_number |-> 1, event |-> "COMMENT"]
    IN  { full,
          [owner |-> "o", repo |-> "r", pull_number |-> 1, event |-> "COMMENT",
           body |-> "Nice work!"],
          [owner |-> "o", repo |-> "r", pull_number |-> 1, event |-> "COMMENT",
           body |-> "", commit_id |-> "abc",
           comments |-> << [path |-> "a.py", position |-> 1, body |-> "typo"] >>],
          [repo |-> "r", pull_number |-> 1, event |-> "COMMENT"],
          [owner |-> "o", pull_number |-> 1, event |-> "COMMENT"],
          [owner |-> "o", repo |-> "r", event |-> "COMMENT"],
          [owner |-> "o", repo |-> "r", pull_number |-> 1],
          [owner |-> "", repo |-> "r", pull_number |-> 1, event |-> "COMMENT"],
          [owner |-> "o", repo |-> "r", pull_number |-> 0, event |-> "COMMENT"] }

FilesArgs ==
    { [owner |-> "o", repo |-> "r", pull_number |-> 1],
      [owner |-> "o", repo |-> "r", pull_number |-> 42],
      [repo |-> "r", pull_number |-> 1],
      [owner |-> "o", pull_number |-> 1],
      [owner |-> "o", repo |-> "r"],
      [owner |-> "o", repo |-> "", pull_number |-> 1],
      [pull_number |-> 1] }

ListArgs ==
    { [owner |-> "o", repo |-> "r"],
      [owner |-> "o", repo |-> "r", state |-> "closed"],
      [owner |-> "o", repo |-> "r", state |-> "all", head |-> "alice:fix",
       base |-> "main", sort |-> "updated", direction |-> "asc", per_page |-> 5],
      [repo |-> "r"],
      [owner |-> "o", state |-> "open"],
      [owner |-> "", repo |-> "r"],
      [state |-> "open"] }

IssuesArgs ==
    { [owner |-> "o", repo |-> "r"],
      [owner |-> "o", repo |-> "r", state |-> "closed", labels |-> "bug,ui"],
      [owner |-> "o", repo |-> "r", state |-> "all", assignee |-> "bob",
       creator |-> "alice", per_page |-> 5],
      [owner |-> "o"],
      [repo |-> "r", state |-> "open"] }

GitHubArgs(handler) ==
    CASE handler = "create_pull_request_review" -> ReviewArgs
      [] handler = "get_pull_request_files"     -> FilesArgs
      [] handler = "list_pull_requests"         -> ListArgs
      [] handler = "list_issues"                -> IssuesArgs

\* "return [TextContent(type="text", text=...)]" inside the try block: the
\* finally clause runs next.
returns(g, text) == [g EXCEPT !.result = <<TextContent(text)>>, !.pc = "finally"]

\* A faulty except clause: the exception goes on to the caller.
except_propagates(g, e) == [g EXCEPT !.exception = e, !.raised = e, !.pc = "finally"]

\* "except Exception as e" of lines 237-238, 429-430 and 522-523
except_returns(g, e) == [returns(g, ExceptText(g.handler, e)) EXCEPT !.exception = e]

\* The caller invokes a handler.
GhCall(handler, args) ==
    /\ github.pc = "idle"
    /\ github' = [github EXCEPT !.pc = "validate", !.handler = handler, !.args = args]
    /\ UNCHANGED image_vars

\* Lines 200-212, 348-357, 437-459: the return of the missing-parameters
\* text comes before the try block.
GhValidate ==
    /\ github.pc = "validate"
    /\ github' =
         IF ~all_given(github.args, Required(github.handler))
           THEN [github EXCEPT !.result = <<TextContent(MissingText(github.handler))>>,
                               !.pc = "returned"]
         ELSE [github EXCEPT !.pc = "connect"]
    /\ UNCHANGED image_vars

\* Lines 214, 361, 463: http.client.HTTPSConnection(...) gives a
\* connection or raises.
GhConnect ==
    /\ github.pc = "connect"
    /\ \/ github' = [github EXCEPT !.conn = "open", !.opened = @ + 1, !.pc = "request"]
       \/ github' = except_returns(github, "Connection failed")
    /\ UNCHANGED image_vars

\* Lines 230, 374, 476: conn.request sends the request or raises.
GhRequest ==
    /\ github.pc = "request"
    /\ \/ github' = [github EXCEPT
                       !.sent = Append(@, request_of(github.handler, github.args)),
                       !.pc = "getresponse"]
       \/ github' = except_returns(github, "[Errno -2] Name or service not known")
    /\ UNCHANGED image_vars

\* Lines 231, 375, 477: conn.getresponse gives the status line or raises.
\* The review handler reads the body before it looks at the status.
GhGetResponse ==
    /\ github.pc = "getresponse"
    /\ \/ \E status \in Statuses :
             github' = [github EXCEPT
                          !.status = status,
                          !.pc = IF github.handler = "create_pull_request_review"
                                   THEN "read" ELSE "status"]
       \/ github' = except_returns(github, "Remote end closed connection without response")
    /\ UNCHANGED image_vars

\* Lines 233-234, 376-381, 478-483
GhCheckStatus ==
    /\ github.pc = "status"
    /\ LET answer == status_text(github.handler, github.args, github.status, github.body)
       IN  github' =
             IF answer.ok THEN returns(github, answer.text)
             ELSE [github EXCEPT !.pc = IF github.handler = "create_pull_request_review"
                                          THEN "parse" ELSE "read"]
    /\ UNCHANGED image_vars

\* Lines 232, 384, 486: response.read gives the body or raises.
GhRead ==
    /\ github.pc = "read"
    /\ \/ \E body \in Bodies(github.handler) :
             github' = [github EXCEPT
                          !.body = body,
                          !.pc = IF github.handler = "create_pull_request_review"
                                   THEN "status" ELSE "parse"]
       \/ github' = except_returns(github, "IncompleteRead(0 bytes read)")
    /\ UNCHANGED image_vars

\* Lines 235, 384, 486: json.loads
GhParse ==
    /\ github.pc = "parse"
    /\ github' =
         IF loads(github.body).ok THEN [github EXCEPT !.pc = "format"]
         ELSE except_returns(github, loads(github.body).text)
    /\ UNCHANGED image_vars

\* Lines 236, 387-427, 489-520
GhFormat ==
    /\ github.pc = "format"
    /\ LET answer == format(github.handler, github.args, github.body)
       IN  github' =
             IF answer.ok THEN returns(github, answer.text)
             ELSE except_returns(github, answer.text)
    /\ UNCHANGED image_vars

\* Lines 239-241, 431-433, 524-526: the finally clause closes the
\* connection if there is one, and the handler returns.
GhClose ==
    /\ github.pc = "finally"
    /\ github' = [github EXCEPT
                    !.conn = IF @ = "open" THEN "closed" ELSE @,
                    !.pc = IF github.raised # "" THEN "raised" ELSE "returned"]
    /\ UNCHANGED image_vars

NextGitHub ==
    \/ \E handler \in Handlers : \E args \in GitHubArgs(handler) : GhCall(handler, args)
    \/ GhValidate
    \/ GhConnect
    \/ GhRequest
    \/ GhGetResponse
    \/ GhCheckStatus
    \/ GhRead
    \/ GhParse
    \/ GhFormat
    \/ GhClose

\* The GitHub handlers; no image is read meanwhile.
InitGitHub == InitOn({Tree([size |-> SmallCeiling, image |-> NotAnImage])})

SpecGitHub == InitGitHub /\ [][NextGitHub]_vars

----------------------------------------------------------------------------
(* What the properties below speak of.                                     *)

\* a is a prefix of b, component by component
IsPrefix(a, b) == Len(a) <= Len(b) /\ SubSeq(b, 1, Len(a)) = a

\* The path lies in the allowed directory, compared segment by segment.
InsideRoot(path) == IsPrefix(components(allowed_directory), components(path))

\* The call has computed full_path (normpath never returns the empty
\* string).
Resolved(c) == frame[c].full_path # <<>>

\* The call made the file-system access op.
Did(c, op) == \E i \in DOMAIN syscalls[c] : syscalls[c][i].op = op

\* What the access op of the call learnt.
Seen(c, op) ==
    syscalls[c][CHOOSE i \in DOMAIN syscalls[c] : syscalls[c][i].op = op].seen

\* The image as Image.open found it.
Source(c) == Seen(c, "open")

FailedWith(c, message) == pc[c] = "failed" /\ error[c] = message

----------------------------------------------------------------------------
(* Path Resolver.                                                          *)

\* C1: a call whose normalized path does not have the allowed directory as
\* a prefix of whole path segments fails with the access-denied error and
\* makes no access to the file system (no existence check, size query or
\* open).
C1_OutsideSegmentsDenied ==
    \A c \in Calls :
        (Resolved(c) /\ ~InsideRoot(frame[c].full_path))
            => (FailedWith(c, "Access denied") /\ syscalls[c] = <<>>)

\* C2: every file the call opens for decoding lies, by its symlink-free
\* absolute location, in the allowed directory; a symbolic link in the
\* allowed directory pointing out of it is never opened.
C2_OpenedInsideRoot ==
    \A c \in Calls : \A i \in DOMAIN syscalls[c] :
        syscalls[c][i].op = "open"
            => IsPrefix(components(allowed_directory), syscalls[c][i].node)

\* C3: full_path is absolute and has no "." or ".." segment when the
\* containment check runs, and a relative path whose ".." segments take it
\* out of the allowed directory fails with the access-denied error, nothing
\* being read.
C3_RelativeEscapeDenied ==
    \A c \in Calls :
        Resolved(c) =>
            /\ isabs(frame[c].full_path)
            /\ \A i \in DOMAIN components(frame[c].full_path) :
                   components(frame[c].full_path)[i] \notin {<<".">>, <<".", ".">>}
            /\ (~isabs(frame[c].path) /\ ~InsideRoot(frame[c].full_path))
                   => (FailedWith(c, "Access denied") /\ syscalls[c] = <<>>)

----------------------------------------------------------------------------
(* Reading a result back: what a client decoding the data URI obtains.     *)

b64sextet(ch) == (CHOOSE i \in 1..64 : b64alphabet[i] = ch) - 1

\* Well-formed base64 text: groups of four characters of the alphabet, "="
\* only as the last one or two characters, no other character (so no line
\* break).
b64valid(chars) ==
    /\ Len(chars) % 4 = 0
    /\ \A i \in DOMAIN chars :
           \/ \E k \in 1..64 : b64alphabet[k] = chars[i]
           \/ /\ chars[i] = "="
              /\ i >= Len(chars) - 1
              /\ i = Len(chars) - 1 => chars[Len(chars)] = "="

RECURSIVE b64decode(_)
b64decode(chars) ==
    IF Len(chars) < 4 THEN <<>>
    ELSE LET a == b64sextet(chars[1])
             b == b64sextet(chars[2])
             rest == SubSeq(chars, 5, Len(chars))
         IN  IF chars[3] = "=" THEN <<a * 4 + b \div 16>>
             ELSE LET c == b64sextet(chars[3])
                  IN  IF chars[4] = "="
                        THEN <<a * 4 + b \div 16, (b % 16) * 16 + c \div 4>>
                      ELSE <<a * 4 + b \div 16, (b % 16) * 16 + c \div 4,
                             (c % 4) * 64 + b64sextet(chars[4])>>
                           \o b64decode(rest)

FormatNames == {"png", "jpeg", "gif", "webp", "bmp", "tiff"}

\* The format and the pixel size a decoder reads from encoded bytes.
identify(bytes) ==
    IF \E f \in FormatNames : IsPrefix(magic(f), bytes) /\ Len(bytes) = Len(magic(f)) + 4
      THEN LET f == CHOOSE f \in FormatNames : IsPrefix(magic(f), bytes)
               n == Len(magic(f))
           IN  [format |-> f,
                width  |-> bytes[n + 1] * 256 + bytes[n + 2],
                height |-> bytes[n + 3] * 256 + bytes[n + 4]]
    ELSE [format |-> "", width |-> 0, height |-> 0]

\* The image a client gets from the payload of the call's result.
Output(c) == identify(b64decode(frame[c].base64_data))

\* The call went into the resize branch of line 85 and computed the new
\* size.
Rescaled(c) == frame[c].target_width # 0

\* The target width of a rescaled image of width w.
Target(w) == IF w > 800 THEN 800 ELSE 20

TooLarge == "File size exceeds maximum allowed size"

----------------------------------------------------------------------------
(* File Guard.                                                             *)

\* C4: the ceiling is max_size, or 104857600 when max_size is not given; a
\* file whose size is above the ceiling makes the call fail with the
\* too-large error with no Image.open in that call, a file of exactly the
\* ceiling is not turned away by the size gate, and Image.open only ever
\* follows a size query that found the file within the ceiling.
C4_SizeGateBeforeDecode ==
    \A c \in Calls :
        /\ pc[c] \notin {"idle", "arguments"} =>
               frame[c].max_size =
                   IF "max_size" \in DOMAIN arguments[c]
                     THEN arguments[c].max_size ELSE 104857600
        /\ Did(c, "getsize") =>
               /\ Seen(c, "getsize") > frame[c].max_size
                      => (FailedWith(c, TooLarge) /\ ~Did(c, "open"))
               /\ Seen(c, "getsize") <= frame[c].max_size
                      => ~FailedWith(c, TooLarge)
        /\ Did(c, "open") =>
               (Did(c, "getsize") /\ Seen(c, "getsize") <= frame[c].max_size)

\* A file one byte above the default ceiling was turned away.
C4_Witness ==
    \E c \in Calls :
        /\ FailedWith(c, TooLarge)
        /\ "max_size" \notin DOMAIN arguments[c]
        /\ Seen(c, "getsize") = 104857601
        /\ ~Did(c, "open")

----------------------------------------------------------------------------
(* Image Normalizer.                                                       *)

\* C5: the image a successful call returns is 800 wide if the file's image
\* is wider than 800, 20 wide if it is narrower than 20, and as wide as the
\* file's image otherwise; so its width is in 20..800.
C5_OutputWidth ==
    \A c \in Calls :
        pc[c] = "done" =>
            LET W == Source(c).width
            IN  /\ Output(c).width =
                       (IF W > 800 THEN 800 ELSE IF W < 20 THEN 20 ELSE W)
                /\ Output(c).width \in 20..800
                /\ frame[c].img.width = Output(c).width

\* A 2000 pixel wide image came back 800 wide.
C5_Witness ==
    \E c \in Calls :
        /\ pc[c] = "done"
        /\ Source(c).width = 2000
        /\ Output(c).width = 800

\* C6: an image whose width is in 20..800, both limits included, is not
\* resized: the image saved is the image opened and the result has its
\* width and height; and every result has a width that a second
\* normalization leaves alone.
C6_InRangeUntouched ==
    \A c \in Calls :
        /\ (pc[c] \in {"save", "encode", "done"} /\ Source(c).width \in 20..800)
               => (frame[c].img = Source(c) /\ ~Rescaled(c))
        /\ pc[c] = "done" =>
               /\ Source(c).width \in 20..800
                      => /\ Output(c).width = Source(c).width
                         /\ Output(c).height = Source(c).height
               /\ ~needs_resize(Output(c).width)
               /\ target_width(Output(c).width) = Output(c).width

\* An image exactly 800 wide came back with its own size.
C6_Witness ==
    \E c \in Calls :
        /\ pc[c] = "done"
        /\ Source(c).width = 800
        /\ Output(c).width = 800
        /\ Output(c).height = Source(c).height

\* C7, as claimed: the height of a rescaled image is H0 * Wt / W0 rounded
\* to the nearest integer.
C7_HeightRounded ==
    \A c \in Calls :
        Rescaled(c) =>
            frame[c].new_height =
                round_div(Source(c).height * Target(Source(c).width), Source(c).width)

\* C7, amended: the height of a rescaled image is H0 * Wt / W0 truncated to
\* an integer; where W0 divides H0 * Wt the double-precision product may
\* fall just below the quotient, and the height is the quotient or one less
\* (928x145 gives 124, 2000x500 gives 200, 10x10 gives 20).
C7_HeightTruncated ==
    \A c \in Calls :
        Rescaled(c) =>
            LET W0 == Source(c).width
                H0 == Source(c).height
                q  == (H0 * Target(W0)) \div W0
                h  == frame[c].new_height
            IN  /\ frame[c].target_width = Target(W0)
                /\ (H0 * Target(W0)) % W0 # 0 => h = q
                /\ (H0 * Target(W0)) % W0 = 0 => h \in {q - 1, q}
                /\ (W0 = 928 /\ H0 = 145) => h = 124
                /\ (W0 = 2000 /\ H0 = 500) => h = 200
                /\ (W0 = 10 /\ H0 = 10) => h = 20

\* A 2000x499 image was given the height 199, where rounding gives 200.
C7_Witness ==
    \E c \in Calls :
        /\ Rescaled(c)
        /\ Source(c).width = 2000
        /\ Source(c).height = 499
        /\ frame[c].new_height = 199

\* C8: the height of a rescaled image is within one pixel of H0 * Wt / W0
\* rounded to the nearest integer.
C8_HeightWithinOne ==
    \A c \in Calls :
        Rescaled(c) =>
            LET rounded == round_div(Source(c).height * Target(Source(c).width),
                                     Source(c).width)
            IN  frame[c].new_height \in (rounded - 1)..(rounded + 1)

\* A 928x145 image was returned 124 high, one below the rounded 125.
C8_Witness ==
    \E c \in Calls :
        /\ pc[c] = "done"
        /\ Rescaled(c)
        /\ Source(c).width = 928
        /\ Output(c).height =
               round_div(Source(c).height * 800, Source(c).width) - 1

----------------------------------------------------------------------------
(* Data URI Encoder.                                                       *)

LowerCaseName ==
    [PNG |-> "png", JPEG |-> "jpeg", GIF |-> "gif", WEBP |-> "webp",
     BMP |-> "bmp", TIFF |-> "tiff"]

\* C9: a successful call returns one text item whose text is "data:image/",
\* the lower-case format name, ";base64," and the base64 text of the
\* re-encoded bytes, which is well formed, unwrapped and decodes to those
\* bytes; nothing is returned otherwise, and no call fails once the bytes
\* are re-encoded.
C9_DataUri ==
    \A c \in Calls :
        /\ pc[c] = "done" =>
               /\ Len(result[c]) = 1
               /\ result[c][1].type = "text"
               /\ result[c][1].text =
                      "data:image/" \o LowerCaseName[Source(c).format]
                          \o ";base64," \o str(frame[c].base64_data)
               /\ frame[c].img_byte_arr # <<>>
               /\ b64valid(frame[c].base64_data)
               /\ Len(frame[c].base64_data) = 4 * ((Len(frame[c].img_byte_arr) + 2) \div 3)
               /\ b64decode(frame[c].base64_data) = frame[c].img_byte_arr
        /\ pc[c] # "done" => result[c] = <<>>
        /\ pc[c] = "failed" => frame[c].img_byte_arr = <<>>

\* The 2000x500 JPEG came back as the data URI of an 800x200 JPEG.
C9_Witness ==
    \E c \in Calls :
        /\ pc[c] = "done"
        /\ result[c][1].text = "data:image/jpeg;base64,/9j/AyAAyA=="

\* C10: only png, jpeg, gif and webp are returned; a file that opens as
\* another format fails with the invalid-image error.
C10_OnlyFourFormats ==
    \A c \in Calls :
        /\ pc[c] = "done" =>
               frame[c].image_format \in {"png", "jpeg", "gif", "webp"}
        /\ (Did(c, "open") /\ Source(c).format \notin {"PNG", "JPEG", "GIF", "WEBP"})
               => /\ pc[c] # "done"
                  /\ pc[c] = "failed" => error[c] = "File is not a valid image"

----------------------------------------------------------------------------
(* Format Normalizer: the format label and the extension.                  *)

\* The call is past lines 73-82.
FormatSettled(c) == Did(c, "open") /\ Source(c) # NotAnImage /\ pc[c] # "format"

Terminal(c) == pc[c] \in {"done", "failed"}

\* The last component of the path the call resolved.
FileName(c) == components(frame[c].full_path)[Len(components(frame[c].full_path))]

ExtensionLabel ==
    ( <<"x", ".", "p", "n", "g">>      :> "png"
   @@ <<"x", ".", "j", "p", "g">>      :> "jpeg"
   @@ <<"x", ".", "j", "p", "e", "g">> :> "jpeg"
   @@ <<"x", ".", "g", "i", "f">>      :> "gif"
   @@ <<"x", ".", "w", "e", "b", "p">> :> "webp" )

\* C11: when the file decodes and the decoder gives no format label, the
\* format is the one the extension names (jpg and jpeg give jpeg; png, gif
\* and webp themselves) and the call goes on with it; with any other
\* extension the call fails with the unsupported-format error.
C11_ExtensionFallback ==
    \A c \in Calls :
        (FormatSettled(c) /\ Source(c).format \in {"", NoFormat}) =>
            /\ FileName(c) \in DOMAIN ExtensionLabel =>
                   frame[c].image_format = ExtensionLabel[FileName(c)]
            /\ FileName(c) \in {<<"x", ".", "t", "x", "t">>, <<"x">>} =>
                   FailedWith(c, "Unsupported image format")

\* The errors of the seven failure conditions.
SpecificErrors ==
    { "path must be provided", "Access denied", "File does not exist",
      "Path is not a file", "File size exceeds maximum allowed size",
      "File is not a valid image", "Unsupported image format" }

\* C12: a failed call carries the error of its own failure condition, one
\* of the seven, never a catch-all one: a file whose format cannot be told
\* fails with the unsupported-format error itself, and a file whose pixel
\* data is damaged with the invalid-image error.
C12_SpecificErrors ==
    \A c \in Calls :
        pc[c] = "failed" =>
            /\ error[c] \in SpecificErrors
            /\ (Did(c, "open") /\ Source(c) # NotAnImage /\ ~Source(c).intact)
                   => error[c] = "File is not a valid image"

\* C13: the extension does not decide the format when the decoder does:
\* two calls on files of the same content and different names end alike
\* whenever the decoder names a format; content that is no image fails with
\* the invalid-image error whatever its name, and JPEG content is taken
\* as jpeg whatever its name (and returned so when its data is sound).
C13_ExtensionNotPrimary ==
    \A c \in Calls :
        /\ \A d \in Calls :
               ( /\ Terminal(c) /\ Terminal(d)
                 /\ Did(c, "open") /\ Did(d, "open")
                 /\ Source(c) = Source(d)
                 /\ Source(c).format \in PILFormats )
                   => (result[c] = result[d] /\ error[c] = error[d])
        /\ (Did(c, "open") /\ Source(c) = NotAnImage)
               => FailedWith(c, "File is not a valid image")
        /\ (FormatSettled(c) /\ Source(c).format = "JPEG")
               => /\ frame[c].image_format = "jpeg"
                  /\ Source(c).intact => pc[c] # "failed"

\* The wide JPEG was read under the names x.png and x.txt, and both calls
\* returned it as jpeg.
C13_Witness ==
    /\ pc[1] = "done" /\ pc[2] = "done"
    /\ frame[1].path = <<"x", ".", "p", "n", "g">>
    /\ frame[2].path = <<"x", ".", "t", "x", "t">>
    /\ Source(1).format = "JPEG"
    /\ result[1][1].text = "data:image/jpeg;base64,/9j/AyAAyA=="
    /\ result[2] = result[1]

----------------------------------------------------------------------------
(* File Guard.                                                             *)

\* Lines 59-62 have run on the path.
Guarded(c) == Did(c, "exists") /\ pc[c] # "isfile" /\ InsideRoot(frame[c].full_path)

\* What the kernel finds at the path the call resolved.
Found(c) == stat(fs, frame[c].full_path)

NoRead(c) == ~Did(c, "getsize") /\ ~Did(c, "open") /\ handle[c] = None

\* C14 as stated: for a path in the allowed directory the call fails with
\* the not-found error exactly when nothing is at the path, and with the
\* not-a-file error exactly when something is there that is no regular
\* file (a directory, a device, a symbolic link loop); neither failure
\* opens or reads the path.
C14_FileGuard ==
    \A c \in Calls :
        Guarded(c) =>
            /\ FailedWith(c, "File does not exist")
                   <=> Found(c).errno \in {"ENOENT", "ENOTDIR"}
            /\ FailedWith(c, "Path is not a file")
                   <=> \/ Found(c).errno = "ELOOP"
                       \/ Found(c).errno = "OK" /\ fs[Found(c).node].kind # "file"
            /\ Terminal(c) /\ error[c] \in {"File does not exist", "Path is not a file"}
                   => NoRead(c)

\* C14, amended: the call fails with the not-found error exactly when the
\* path does not resolve (nothing there, or a symbolic link loop), and with
\* the not-a-file error exactly when it resolves to something that is no
\* regular file (a directory, a device); neither failure opens or reads
\* the path.
C14_FileGuardResolves ==
    \A c \in Calls :
        Guarded(c) =>
            /\ FailedWith(c, "File does not exist") <=> Found(c).errno # "OK"
            /\ FailedWith(c, "Path is not a file")
                   <=> (Found(c).errno = "OK" /\ fs[Found(c).node].kind # "file")
            /\ Terminal(c) /\ error[c] \in {"File does not exist", "Path is not a file"}
                   => NoRead(c)

\* The symbolic link loop /d/d. was reported as not existing.
C14_Witness ==
    \E c \in Calls :
        /\ FailedWith(c, "File does not exist")
        /\ Found(c).errno = "ELOOP"
        /\ NoRead(c)

----------------------------------------------------------------------------
(* The arguments.                                                          *)

\* C15: a call without a path (the key absent, None or the empty string)
\* fails with the missing-path error whatever its other arguments, before
\* any path is computed and before any access to the file system; no other
\* call fails so.
C15_MissingPathFirst ==
    \A c \in Calls :
        pc[c] \notin {"idle", "arguments"} =>
            /\ get(arguments[c], "path", None) \in {None, <<>>}
                   <=> FailedWith(c, "path must be provided")
            /\ FailedWith(c, "path must be provided")
                   => (frame[c].full_path = <<>> /\ syscalls[c] = <<>>)

\* A call with the empty path and a ceiling failed with the missing-path
\* error.
C15_Witness ==
    \E c \in Calls :
        /\ arguments[c] = [path |-> <<>>, max_size |-> SmallCeiling]
        /\ FailedWith(c, "path must be provided")
        /\ syscalls[c] = <<>>

----------------------------------------------------------------------------
(* The pipeline.                                                           *)

\* The steps of a call in the order of the code: lines 43-47 and 50-57
\* (Resolve), 59-67 (Guard), 71-102 (Normalize), 105-111 (Encode).
PipelineOrder ==
    <<"idle", "arguments", "resolve", "exists", "isfile", "getsize", "open",
      "format", "resize", "save", "encode", "done">>

Rank(p) == CHOOSE i \in DOMAIN PipelineOrder : PipelineOrder[i] = p

Ops(c) == [i \in DOMAIN syscalls[c] |-> syscalls[c][i].op]

\* One step of the pipeline: to the next step or to failure, and nothing
\* after the end.
PipelineStep ==
    \A c \in Calls :
        /\ Terminal(c) =>
               (pc'[c] = pc[c] /\ result'[c] = result[c] /\ error'[c] = error[c])
        /\ pc'[c] # pc[c] =>
               (pc'[c] = "failed" \/ Rank(pc'[c]) = Rank(pc[c]) + 1)

\* A call is at a step of the pipeline, and a finished call went through
\* every stage.
PipelineState ==
    \A c \in Sequential :
        /\ pc[c] \in {"failed"} \cup {PipelineOrder[i] : i \in DOMAIN PipelineOrder}
        /\ pc[c] = "done" =>
               /\ Resolved(c)
               /\ Ops(c) = <<"exists", "isfile", "getsize", "open">>
               /\ frame[c].image_format # ""
               /\ frame[c].img_byte_arr # <<>>
               /\ result[c] # <<>>
        /\ pc[c] = "failed" <=> error[c] # ""

\* A call that was made ends.
PipelineEnds == \A c \in Sequential : pc[c] = "arguments" ~> Terminal(c)

\* C16: a call goes through Resolve, Guard, Normalize and Encode in that
\* order, each at most once, and ends done or failed; a failed call stays
\* failed, nothing is tried again, and a call that is done skipped no
\* stage.
C16_Pipeline == []PipelineState /\ [][PipelineStep]_vars /\ PipelineEnds

\* A call is done after the four file-system accesses of the stages.
C16_Witness ==
    \E c \in Sequential :
        /\ pc[c] = "done"
        /\ Ops(c) = <<"exists", "isfile", "getsize", "open">>
        /\ result[c] # <<>>

----------------------------------------------------------------------------
(* Calls in progress together.                                             *)

\* What belongs to one call.
Own(c) == <<pc[c], arguments[c], frame[c], handle[c], result[c], error[c], syscalls[c]>>

\* A finished call has the outcome it has when run alone.
SameAsAlone ==
    \A c \in Calls :
        Terminal(c) =>
            /\ result[c] = Alone(arguments[c], fs, allowed_directory).result
            /\ error[c] = Alone(arguments[c], fs, allowed_directory).error

\* A step leaves the allowed directory and the files as they are, and
\* changes nothing of a call that did not take it.
OwnStateOnly ==
    /\ allowed_directory' = allowed_directory
    /\ fs' = fs
    /\ \A c \in Calls : pc'[c] = pc[c] => Own(c)' = Own(c)
    /\ \A c, d \in Calls : (c # d /\ pc'[c] # pc[c]) => Own(d)' = Own(d)

\* C17: calls in progress together do not affect each other: however
\* their steps interleave on files that do not change, each call returns
\* what it returns when run alone, no call writes what another reads, and
\* the allowed directory is the same before and after every call.
C17_Independent == []SameAsAlone /\ [][OwnStateOnly]_vars

\* Two calls ran step by step in turn, one returned the resized JPEG and
\* the other was refused the path "..".
C17_Witness ==
    /\ pc[1] = "done" /\ arguments[1] = [path |-> <<"d">>]
    /\ result[1][1].text = "data:image/jpeg;base64,/9j/AyAAyA=="
    /\ FailedWith(2, "Access denied")
    /\ allowed_directory = <<"/", "d">>

----------------------------------------------------------------------------
(* The image file handle.                                                  *)

\* C18: the handle of the image file is released on every way out of the
\* call (success, unsupported format, a failing resize, a failing
\* encoding), and is held only between Image.open and that exit.
C18_HandleReleased ==
    \A c \in Calls :
        /\ Terminal(c) => handle[c] = None
        /\ pc[c] \in {"format", "resize", "save", "encode"}
               <=> (Did(c, "open") /\ handle[c] # None)

\* A call failed for its format after Image.open and another returned,
\* and neither holds a handle.
C18_Witness ==
    /\ pc[1] = "failed" /\ Did(1, "open") /\ Source(1) # NotAnImage
    /\ pc[2] = "done" /\ Did(2, "open")
    /\ handle = [c \in Calls |-> None]

----------------------------------------------------------------------------
(* The GitHub handlers.                                                    *)

\* The handler has returned one text item.
ReturnedOneText ==
    /\ github.pc = "returned"
    /\ Len(github.result) = 1
    /\ github.result[1].type = "text"

\* C19: when a required argument of the handler called is absent (owner,
\* repo, pull_number, event for the review; owner, repo, pull_number for
\* the files; owner, repo for the list), the handler returns one text item
\* whose text has "Missing required parameters" in it, having opened no
\* connection and sent no request.
C19_MissingParameters ==
    (github.pc \notin {"idle", "validate"}
       /\ \E i \in DOMAIN Required(github.handler) :
              Required(github.handler)[i] \notin DOMAIN github.args)
        => /\ ReturnedOneText
           /\ \E rest \in { ": owner, repo, pull_number, event.",
                             ". Required parameters are owner, repo, and pull_number.",
                             ". Required parameters are owner and repo." } :
                  github.result[1].text = "Error: Missing required parameters" \o rest
           /\ github.opened = 0
           /\ github.conn = "none"
           /\ github.sent = <<>>

\* The review was asked for without an owner and nothing was sent.
C19_Witness ==
    /\ github.handler = "create_pull_request_review"
    /\ github.args = [repo |-> "r", pull_number |-> 1, event |-> "COMMENT"]
    /\ ReturnedOneText
    /\ github.opened = 0
    /\ github.sent = <<>>

\* C20: no exception leaves a handler: whatever connecting, sending,
\* reading and parsing come to, a handler that has ended has returned one
\* text item, and after an exception that text is the handler's error text
\* with the message of the exception.
C20_NeverRaises ==
    /\ github.raised = ""
    /\ github.pc # "raised"
    /\ github.result # <<>> => github.pc \in {"finally", "returned"}
    /\ github.pc = "returned" => ReturnedOneText
    /\ (github.pc = "returned" /\ github.exception # "") =>
           github.result[1].text \in
               { "Exception occurred: " \o github.exception,
                 "Error fetching pull request files: " \o github.exception,
                 "Error fetching pull requests: " \o github.exception,
                 "Error fetching issues: " \o github.exception }

\* The body of the list of pull requests was no JSON: json.loads raised,
\* the handler returned the error text and closed the connection.
C20_Witness ==
    /\ github.handler = "list_pull_requests"
    /\ github.exception = "Expecting value: line 1 column 1 (char 0)"
    /\ ReturnedOneText
    /\ github.result[1].text =
           "Error fetching pull requests: Expecting value: line 1 column 1 (char 0)"
    /\ github.conn = "closed"

----------------------------------------------------------------------------
(* Reading a returned text back.                                           *)

StartsWith(text, prefix) ==
    Len(text) >= Len(prefix) /\ SubSeq(text, 1, Len(prefix)) = prefix

\* Where sub occurs in text.
Positions(text, sub) ==
    {i \in 1..(Len(text) - Len(sub) + 1) : SubSeq(text, i, i + Len(sub) - 1) = sub}

Contains(text, sub) == Positions(text, sub) # {}

Count(text, sub) == Cardinality(Positions(text, sub))

IsDigit(ch) == \E d \in 0..9 : ToString(d) = ch

\* The decimal number written in text from position pos on.
RECURSIVE ReadNumber(_, _, _)
ReadNumber(text, pos, acc) ==
    IF pos <= Len(text) /\ IsDigit(SubSeq(text, pos, pos))
      THEN ReadNumber(text, pos + 1,
                      10 * acc + (CHOOSE d \in 0..9 : ToString(d) = SubSeq(text, pos, pos)))
    ELSE acc

\* The number that follows the first occurrence of label, -1 without one.
NumberAfter(text, label) ==
    IF ~Contains(text, label) THEN -1
    ELSE LET first == CHOOSE i \in Positions(text, label) :
                          \A j \in Positions(text, label) : i <= j
         IN  ReadNumber(text, first + Len(label), 0)

\* What kind of answer a text is.
TextKind(text) ==
    IF StartsWith(text, "# ") THEN "listing"
    ELSE IF StartsWith(text, "No ") /\ Contains(text, " found in ") THEN "none found"
    ELSE IF StartsWith(text, "Error") THEN "error"
    ELSE IF Contains(text, " not found") THEN "not found"
    ELSE "other"

\* The handler got a response and has returned.
Answered(handler) ==
    /\ github.handler = handler
    /\ github.pc = "returned"
    /\ github.status # 0
    /\ Len(github.result) = 1

\* C21: handle_get_pull_request_files and handle_list_pull_requests answer
\* by the status and the body, one case applying, in this order: 404 gives
\* the not-found message; another status that is not 200 an error message
\* with the status code in it; 200 with an empty list the "No ... found"
\* message; 200 with a list that is not empty the listing.
C21_StatusOrder ==
    \A handler \in {"get_pull_request_files", "list_pull_requests"} :
        Answered(handler) =>
            LET text == github.result[1].text
            IN  /\ github.status = 404 => TextKind(text) = "not found"
                /\ github.status \notin {200, 404} =>
                       /\ TextKind(text) = "error"
                       /\ Contains(text, ToString(github.status))
                /\ (github.status = 200 /\ github.body.kind = "list") =>
                       TextKind(text) =
                           IF github.body.items = <<>> THEN "none found" ELSE "listing"

\* The total of a key over the files of the response, 0 where it is absent.
RECURSIVE TotalOf(_, _)
TotalOf(files, key) ==
    IF files = <<>> THEN 0
    ELSE (IF key \in DOMAIN Head(files) THEN Head(files)[key] ELSE 0)
           + TotalOf(Tail(files), key)

\* The heading of the entry of a file.
EntryHeading(file) ==
    " **" \o (IF "filename" \in DOMAIN file THEN file.filename ELSE "Unknown file")
        \o "** (" \o (IF "status" \in DOMAIN file THEN file.status ELSE "unknown") \o ")\n"

\* C22: for a list of changed files that is not empty, returned with
\* status 200, the summary gives as Total Files Changed the number of
\* files, as Total Additions and Total Deletions the sums of their
\* additions and deletions, as Total Changes the sum of these two, and each
\* file of the response has one entry.
C22_SummaryTotals ==
    ( /\ Answered("get_pull_request_files")
      /\ github.status = 200
      /\ github.body.kind = "list"
      /\ github.body.items # <<>> ) =>
        LET text  == github.result[1].text
            files == github.body.items
        IN  /\ TextKind(text) = "listing"
            /\ NumberAfter(text, "\n- Total Files Changed: ") = Len(files)
            /\ NumberAfter(text, "\n- Total Additions: +") = TotalOf(files, "additions")
            /\ NumberAfter(text, "\n- Total Deletions: -") = TotalOf(files, "deletions")
            /\ NumberAfter(text, "\n- Total Changes: ") =
                   TotalOf(files, "additions") + TotalOf(files, "deletions")
            /\ Count(text, "   - Additions: +") = Len(files)
            /\ \A i \in DOMAIN files :
                   Count(text, EntryHeading(files[i])) =
                       Cardinality({j \in DOMAIN files :
                                       EntryHeading(files[j]) = EntryHeading(files[i])})

\* Two files were listed, b.py and a removed file without a name: the
\* summary counts 2 files, 1 addition, 7 deletions and 8 changes, where the
\* "changes" of the two files add up to 3.
C22_Witness ==
    /\ Answered("get_pull_request_files")
    /\ github.status = 200
    /\ Len(github.body.items) = 2
    /\ TotalOf(github.body.items, "changes") = 3
    /\ NumberAfter(github.result[1].text, "\n- Total Files Changed: ") = 2
    /\ NumberAfter(github.result[1].text, "\n- Total Additions: +") = 1
    /\ NumberAfter(github.result[1].text, "\n- Total Deletions: -") = 7
    /\ NumberAfter(github.result[1].text, "\n- Total Changes: ") = 8

\* C26: for a status-200 list, handle_list_issues leaves the entries with
\* a "pull_request" key out of the rows and out of the count, so that
\* "Total issues found" is the number of rows, and it returns the
\* "No ... issues found" message whenever it lists no issue.
C26_IssuesCount ==
    ( /\ Answered("list_issues")
      /\ github.status = 200
      /\ github.body.kind = "list"
      /\ github.exception = "" ) =>
        LET text   == github.result[1].text
            issues == {i \in DOMAIN github.body.items :
                          "pull_request" \notin DOMAIN github.body.items[i]}
        IN  /\ TextKind(text) = "listing" =>
                   /\ Count(text, "\n| [") = Cardinality(issues)
                   /\ NumberAfter(text, "**Total issues found: ") = Count(text, "\n| [")
            /\ issues = {} => TextKind(text) = "none found"

----------------------------------------------------------------------------
(* The order of the failures.                                              *)

GuardErrors ==
    <<"path must be provided", "Access denied", "File does not exist",
      "Path is not a file", "File size exceeds maximum allowed size">>

\* The first failure condition, in the order of GuardErrors, that holds for
\* the arguments of the call in the file system; 0 when none holds.  The
\* path is outside the allowed directory when its normalized form does not
\* have the allowed directory as a prefix of whole segments; the root "//",
\* which normpath keeps, is another root than "/".
Outside(full_path) ==
    \/ ~InsideRoot(full_path)
    \/ Len(full_path) >= 2 /\ full_path[1] = "/" /\ full_path[2] = "/"

FirstFailure(c) ==
    LET path == get(arguments[c], "path", None)
    IN  IF path = None \/ path = <<>> THEN 1
        ELSE LET full_path == resolve(allowed_directory, path)
                 found     == stat(fs, full_path)
             IN  IF Outside(full_path) THEN 2
                 ELSE IF found.errno # "OK" THEN 3
                 ELSE IF fs[found.node].kind # "file" THEN 4
                 ELSE IF fs[found.node].content.size > frame[c].max_size THEN 5
                 ELSE 0

\* C23: when several failure conditions hold for a call, it fails with the
\* first of them in the order missing path, access denied, not found, not
\* a file, too large, decode failures: a path outside the allowed
\* directory that does not exist is denied, and an oversized file that is
\* no image is too large.
C23_FirstFailureReported ==
    \A c \in Calls :
        Terminal(c) =>
            IF FirstFailure(c) = 0
              THEN \A i \in DOMAIN GuardErrors : error[c] # GuardErrors[i]
            ELSE FailedWith(c, GuardErrors[FirstFailure(c)])

----------------------------------------------------------------------------
(* The height of a resized image.                                          *)

\* C24: for an image of width and height at least 1 the height computed
\* for the resized image is at least 1, so that a call on an intact image
\* of a supported format, in the allowed directory and within the ceiling,
\* does not fail, whatever the aspect ratio (2000x1 too).
C24_HeightAtLeastOne ==
    \A c \in Calls :
        /\ Rescaled(c) => frame[c].new_height >= 1
        /\ ( /\ Did(c, "open")
              /\ Source(c).intact
              /\ Source(c).format \in SupportedFormats
              /\ Source(c).width >= 1
              /\ Source(c).height >= 1 ) => pc[c] # "failed"

----------------------------------------------------------------------------
(* The file between the File Guard and the decoder.                        *)

\* The node the access op of the call was resolved to.
NodeOf(c, op) ==
    syscalls[c][CHOOSE i \in DOMAIN syscalls[c] : syscalls[c][i].op = op].node

\* C25: however the steps of a call interleave with another process that
\* replaces, grows or re-links the file at the resolved path, what the call
\* opens for decoding is the file the File Guard checked: a regular file,
\* the one os.path.isfile saw, of the size os.path.getsize saw and no
\* larger than the ceiling.
C25_DecodesWhatWasChecked ==
    [][\A c \in Calls :
          (pc[c] = "open" /\ pc'[c] # "open") =>
              LET found == stat(fs, frame[c].full_path)
              IN  /\ found.errno = "OK"
                  /\ fs[found.node].kind = "file"
                  /\ found.node = NodeOf(c, "isfile")
                  /\ fs[found.node].content.size = frame[c].file_size
                  /\ fs[found.node].content.size <= frame[c].max_size]_vars

====
